---- MODULE Spec2Model ----
(***************************************************************************)
(* Model of the Speckle provider's graph-to-GeoJSON conversion:            *)
(*   - feature_utils.initialize_features, stepped one loop iteration per   *)
(*     action (specification Spec);                                        *)
(*   - converter_utils.assign_geometry and display_utils.find_display_obj  *)
(*     as operators;                                                       *)
(*   - SpeckleProvider.assign_geometry's mesh branch with its re-slicing   *)
(*     of the reprojected buffer (specification SpecMesh);                 *)
(*   - SpeckleProvider.offset_rotate (specification SpecOffset);           *)
(*   - the Line / Polyline / Curve branches of assign_geometry             *)
(*     (specification SpecLine);                                           *)
(*   - the CRS resolution of SpeckleProvider.traverse_data and the crs     *)
(*     each item is converted with (specification SpecCrs);                *)
(*   - url_utils.get_set_url_parameters followed by                        *)
(*     crs_utils.create_crs_dict (specification SpecUrl);                  *)
(*   - two conversion runs sharing the module-level DEFAULT_COLOR of       *)
(*     display_utils (specification SpecColor);                            *)
(*   - the graph traversal of SpeckleProvider.traverse_data with its       *)
(*     traversal rule (specification SpecTraverse);                        *)
(*   - SpeckleProvider.assign_props on one node (specification SpecProps); *)
(*   - assign_geometry on GIS features and on merged display meshes        *)
(*     (specification SpecGeom);                                           *)
(*   - SpeckleProvider._load and query on one provider whose data string   *)
(*     the host replaces between calls (specification SpecQuery).          *)
(*                                                                         *)
(* feature_utils.py calls assign_geometry(self, feature, obj) and          *)
(* assign_display_properties(self, feature, f_base, obj) although the      *)
(* definitions in converter_utils.py / display_utils.py take no provider   *)
(* argument; the model binds the arguments by role (feature, object).      *)
(* feature_utils.py:83 reads a third coordinate (max_height) that the 2D   *)
(* decoder of converter_utils.py does not emit; max_height is left out.    *)
(* props_utils, coords_utils and find_list_of_display_obj are not part of  *)
(* the sources and are modelled from the specification's text.             *)
(***************************************************************************)
EXTENDS Integers, Sequences, FiniteSets, TLC

VARIABLES
    \* ---- initialize_features (feature_utils.py) ----
    preserve_attributes,   \* self.preserve_attributes
    requested_data_type,   \* self.requested_data_type
    limit,                 \* self.limit
    limit_message,         \* self.limit_message
    context_list,          \* the traversal contexts (item.current of each)
    comments,              \* the comments dict, in insertion order
    data,                  \* data["features"], data["comments"]
    all_coords,            \* the shared flat coordinate buffer
    all_coord_counts,      \* one length encoding per emitted feature
    all_props,             \* property names seen so far
    feature_count,         \* local feature_count
    idx,                   \* position of the for loop (1-based)
    pc,                    \* "loop", "check", "returned", "reprojected", "raised", "idle"
    exc,                   \* the exception that ended the run ("" if none)
    \* ---- SpeckleProvider.assign_geometry, mesh branch (speckle.py) ----
    m_faces,               \* f_base.faces
    m_vertices,            \* f_base.vertices
    m_shape,               \* the faces the list was written from
    m_tr,                  \* the transform reproject_2d_coords_list applies
    m_pc,                  \* "start", "converter", "provider", "idle"
    m_conv,                \* result of converter_utils.assign_geometry
    m_prov,                \* geometry["coordinates"] of the provider method
    \* ---- SpeckleProvider.offset_rotate (speckle.py) ----
    o_crs,                 \* the crs dict
    o_in,                  \* coords_in
    o_out,                 \* final_coords
    o_pc,                  \* "start", "done", "idle"
    \* ---- converter_utils.assign_geometry, line branches ----
    l_obj,                 \* f_base
    l_out,                 \* (coords, coord_counts, geometry["type"])
    l_pc,                  \* "start", "done", "idle"
    \* ---- SpeckleProvider.traverse_data, CRS resolution (speckle.py) ----
    t_self,                \* self.lat, self.lon, self.north_degrees
    t_ctx,                 \* context_list (item.current of each)
    t_crs,                 \* the local crs, None until resolved
    t_used,                \* per converted item: the crs passed on, the factor
    t_pc,                  \* "start", "features", "done", "idle"
    \* ---- url_utils.get_set_url_parameters, crs_utils.create_crs_dict ----
    u_data,                \* self.data: the guard of the URL and its "&" items
    u_self,                \* self.lat, .lon, .north_degrees, .crs, .crs_dict
    u_pc,                  \* "start", "params", "done", "raised", "idle"
    u_exc,                 \* the exception that ended the request ("" if none)
    \* ---- display_utils.set_default_color / assign_color ----
    DEFAULT_COLOR,         \* the module-level global, as (a, r, g, b)
    runs,                  \* per run: context_list, pc, loop index, colours given
    \* ---- SpeckleProvider.traverse_data: GraphTraversal([rule]).traverse ----
    v_root,                \* commit_obj
    v_stack,               \* the stack of the traversal
    v_ctx,                 \* the contexts yielded so far (item.current of each)
    \* ---- SpeckleProvider.assign_props(obj, props) ----
    p_obj,                 \* the members of obj, in get_member_names() order
    p_props,               \* the property map being filled
    p_pc,                  \* "start" | "done"
    \* ---- assign_geometry(feature, f_base) on one node ----
    g_obj,                 \* f_base
    g_out,                 \* what the call returned or raised
    g_pc,                  \* "start" | "done" | "merged"
    \* ---- SpeckleProvider._load / query ----
    q_data,                \* self.data
    q_self,                \* self.url, lat, lon, north_degrees, speckle_data
    q_result,              \* what the last call returned or raised, and for which self.data
    q_calls,               \* number of calls made
    q_sets                 \* number of times self.data was replaced

featVars == << preserve_attributes, requested_data_type, limit, limit_message,
               context_list, comments, data, all_coords, all_coord_counts,
               all_props, feature_count, idx, pc, exc >>
meshVars == << m_faces, m_vertices, m_shape, m_tr, m_pc, m_conv, m_prov >>
offVars  == << o_crs, o_in, o_out, o_pc >>
lineVars == << l_obj, l_out, l_pc >>
crsVars  == << t_self, t_ctx, t_crs, t_used, t_pc >>
urlVars  == << u_data, u_self, u_pc, u_exc >>
colorVars == << DEFAULT_COLOR, runs >>
travVars == << v_root, v_stack, v_ctx >>
propVars == << p_obj, p_props, p_pc >>
geomVars == << g_obj, g_out, g_pc >>
queryVars == << q_data, q_self, q_result, q_calls, q_sets >>
vars     == << featVars, meshVars, offVars, lineVars, crsVars, urlVars, colorVars, travVars, propVars, geomVars, queryVars >>

-----------------------------------------------------------------------------
(* Bounds of the model *)

MaxNodes == 3
MaxLimit == 2
MaxComments == 2
MaxFaces == 2
MaxLinePoints == 4
MaxItems == 3
MaxParams == 3
MaxRunItems == 2
MaxCalls == 3
MaxParts == 2
MaxMembers == 3
MaxChildren == 3

-----------------------------------------------------------------------------
(* Python helpers *)

Min(a, b) == IF a < b THEN a ELSE b

\* s[a:b] for 0 <= a, 0 <= b (Python clips the slice to the list)
PySlice(s, a, b) ==
    IF a >= Min(b, Len(s)) THEN << >> ELSE SubSeq(s, a + 1, Min(b, Len(s)))

\* Optional values: None is << >>, a value v is << v >>
None == << >>
Some(v) == << v >>
IsNone(o) == o = << >>

RECURSIVE SumSeq(_)
SumSeq(s) == IF s = << >> THEN 0 ELSE Head(s) + SumSeq(Tail(s))

RECURSIVE FlattenSeq(_)
FlattenSeq(ss) == IF ss = << >> THEN << >> ELSE Head(ss) \o FlattenSeq(Tail(ss))

\* All sequences over S of length 0..n
SeqsUpTo(S, n) == UNION { [1..k -> S] : k \in 0..n }

-----------------------------------------------------------------------------
(* Speckle objects.  Every object is a record with the same fields:        *)
(*   cls          the Python class (isinstance)                            *)
(*   id, speckle_type                                                      *)
(*   faces, vertices   Optional flat lists (Mesh)                          *)
(*   hasDV        hasattr(obj, "displayValue")                             *)
(*   dvKind       "None", "list" or "obj": what displayValue holds         *)
(*   dvItems      the items of a list displayValue / the single object     *)
(*   x, y         Point coordinates                                        *)
(*   points       as_points() of a Polyline, start and end of a Line       *)
(*   closed       the closed flag of a Polyline                            *)
(*   members      the other named members (get_member_names)               *)
(*   geometry     the geometries of a GIS feature                           *)

Obj(cls, id, stype, faces, vertices, hasDV, dvKind, dvItems, x, y) ==
    [ cls |-> cls, id |-> id, speckle_type |-> stype, faces |-> faces,
      vertices |-> vertices, hasDV |-> hasDV, dvKind |-> dvKind,
      dvItems |-> dvItems, x |-> x, y |-> y, members |-> << >>,
      points |-> << >>, closed |-> FALSE, geometry |-> << >> ]

\* a named member of a node: kind is "prim", "base", "list" or "dict"; val is
\* the value; sub holds the members of a Base value and the entries of a dict
Member(name, kind, val, sub) == [ name |-> name, kind |-> kind, val |-> val, sub |-> sub ]

WithMembers(obj, ms) == [ obj EXCEPT !.members = ms ]

NoneObj == Obj("NoneType", "", "", None, None, FALSE, "None", << >>, 0, 0)

MeshObj(id, faces, vertices) ==
    Obj("Mesh", id, "Objects.Geometry.Mesh", faces, vertices, FALSE, "None", << >>, 0, 0)

PointObj(id, x, y) ==
    Obj("Point", id, "Objects.Geometry.Point", None, None, FALSE, "None", << >>, x, y)

BrepObj(id, dvKind, dvItems) ==
    Obj("Brep", id, "Objects.Geometry.Brep", None, None, TRUE, dvKind, dvItems, 0, 0)

\* three vertices (0,0,0) (1,0,0) (0,1,0) and a fourth (5,7,9), flattened
Verts3 == << 0, 0, 0, 1, 0, 0, 0, 1, 0 >>
Verts4 == << 0, 0, 0, 1, 0, 0, 0, 1, 0, 5, 7, 9 >>


-----------------------------------------------------------------------------
(* display_utils.find_display_obj *)

\* the faces loop over one display mesh (display_utils.py:35-43): the stored
\* count is copied as it is, the indices after it are shifted by start
RECURSIVE MergeFaces(_, _, _, _)
MergeFaces(ifaces, count, start, acc) ==
    IF count >= Len(ifaces) THEN acc
    ELSE LET vert_num == ifaces[count + 1]
             run == PySlice(ifaces, count + 1, count + 1 + vert_num)
         IN MergeFaces(ifaces, count + vert_num + 1, start,
                       Append(acc, vert_num) \o [k \in 1..Len(run) |-> run[k] + start])

\* the loop over the items of a list displayValue (display_utils.py:23-45);
\* last is the non-mesh item displayValForColor was rebound to, if any
RECURSIVE MergeItems(_, _, _, _)
MergeItems(items, faces, verts, last) ==
    IF items = << >> THEN [ exc |-> "", faces |-> faces, verts |-> verts, last |-> last ]
    ELSE LET item == Head(items) IN
         IF item.cls = "Mesh" THEN
              IF IsNone(item.vertices) \/ IsNone(item.faces)
              THEN [ exc |-> "TypeError", faces |-> faces, verts |-> verts, last |-> last ]
              ELSE MergeItems(Tail(items),
                              MergeFaces(item.faces[1], 0, Len(verts) \div 3, faces),
                              verts \o item.vertices[1], last)
         ELSE IF item.cls # "NoneType" THEN MergeItems(Tail(items), faces, verts, Some(item))
         ELSE MergeItems(Tail(items), faces, verts, last)

\* (displayVal, displayValForColor), or the exception that escapes
find_display_obj(obj) ==
    LET noexc(dv, dvc) == [ exc |-> "", displayVal |-> dv, forColor |-> dvc ]
        raised(e) == [ exc |-> e, displayVal |-> NoneObj, forColor |-> NoneObj ]
        final(dvc) == IF obj.speckle_type = "Objects.GIS.GisFeature"
                      THEN noexc(obj, dvc) ELSE noexc(dvc, dvc)
    IN  IF ~obj.hasDV THEN final(obj)
        ELSE IF obj.dvKind = "None" THEN final(NoneObj)
        ELSE IF obj.dvKind = "obj" THEN final(obj.dvItems[1])
        ELSE LET m == MergeItems(obj.dvItems, << >>, << >>, None) IN
             IF m.exc # "" THEN raised(m.exc)
             ELSE IF ~IsNone(m.last) THEN raised("KeyError")
             ELSE IF obj.dvItems = << >> THEN raised("IndexError")
             ELSE IF obj.dvItems[1].cls = "NoneType" THEN raised("AttributeError")
             ELSE final(Obj("Mesh", obj.dvItems[1].id, "Objects.Geometry.Mesh",
                            Some(m.faces), Some(m.verts), FALSE, "None", << >>, 0, 0))

-----------------------------------------------------------------------------
(* converter_utils.assign_geometry *)

\* entries of a length encoding: the None marker, or a list of counts
NoneEntry == [ none |-> TRUE, lens |-> << >> ]
Lens(l) == [ none |-> FALSE, lens |-> l ]

\* the historic face counts (converter_utils.py:52-55)
FaceCountNoQuad(stored) == IF stored = 0 THEN 3 ELSE stored
FaceCount(stored) == IF stored = 0 THEN 3 ELSE IF stored = 1 THEN 4 ELSE stored

\* where the next face starts (converter_utils.py:63)
NextFace(count, pt_count) == count + pt_count + 1

\* the points of one face (converter_utils.py:58-61)
RECURSIVE RingCoords(_, _, _)
RingCoords(idxs, vertices, acc) ==
    IF idxs = << >> THEN [ exc |-> "", coords |-> acc ]
    ELSE IF IsNone(vertices) THEN [ exc |-> "TypeError", coords |-> << >> ]
    ELSE LET v == Head(idxs)
             vs == vertices[1]
         IN IF v * 3 + 2 > Len(vs) THEN [ exc |-> "IndexError", coords |-> << >> ]
            ELSE RingCoords(Tail(idxs), vertices,
                            Append(acc, << vs[v * 3 + 1], vs[v * 3 + 2] >>))

\* the enumerate loop over faces (converter_utils.py:46-63)
RECURSIVE DecodeFaces(_, _, _, _, _, _)
DecodeFaces(faces, vertices, i, count, coords, counts) ==
    IF i >= Len(faces) THEN [ exc |-> "", coords |-> coords, counts |-> counts ]
    ELSE IF i # count THEN DecodeFaces(faces, vertices, i + 1, count, coords, counts)
    ELSE LET pt_count == FaceCount(faces[i + 1])
             ring == RingCoords(PySlice(faces, count + 1, count + 1 + pt_count),
                                vertices, << >>)
         IN IF ring.exc # "" THEN [ exc |-> ring.exc, coords |-> << >>, counts |-> << >> ]
            ELSE DecodeFaces(faces, vertices, i + 1, NextFace(count, pt_count),
                             coords \o ring.coords, Append(counts, Lens(<< pt_count >>)))

\* result of a call: exc is the exception raised ("" if none), none says the
\* call returned None (a bare return), type is geometry["type"]
AGResult(e, none, type, coords, counts) ==
    [ exc |-> e, none |-> none, type |-> type, coords |-> coords, coord_counts |-> counts ]

MeshGeometry(faces, vertices) ==
    IF IsNone(faces) THEN AGResult("TypeError", FALSE, "MultiPolygon", << >>, << >>)
    ELSE LET d == DecodeFaces(faces[1], vertices, 0, 0, << >>, << NoneEntry >>)
         IN AGResult(d.exc, FALSE, "MultiPolygon", d.coords, d.counts)

\* Polyline / Curve: the ring is closed when the source says closed, more
\* than two points were sampled and the ends differ (converter_utils.py:126-127)
CloseAlways(coords, closed) ==
    IF closed /\ coords # << >> /\ coords[1] # coords[Len(coords)]
    THEN Append(coords, coords[1]) ELSE coords
CloseIfOpen(coords, closed) ==
    IF Len(coords) > 2 /\ closed /\ coords[1] # coords[Len(coords)]
    THEN Append(coords, coords[1]) ELSE coords

LineStringMarked(coords) ==
    AGResult("", FALSE, "LineString", coords, << NoneEntry, Lens(<< Len(coords) >>) >>)
LineString(coords) ==
    AGResult("", FALSE, "LineString", coords, << Lens(<< Len(coords) >>) >>)

\* f_base.speckle_type.endswith(".GisFeature")
IsGisFeature(f_base) == f_base.speckle_type = "Objects.GIS.GisFeature"

\* GIS points (converter_utils.py:72-74)
GisPoints(geoms) ==
    AGResult("", FALSE, "MultiPoint",
             [ k \in 1..Len(geoms) |-> << geoms[k].x, geoms[k].y >> ],
             << NoneEntry >> \o [ k \in 1..Len(geoms) |-> Lens(<< 1 >>) ])

\* GIS polylines (converter_utils.py:80-91): the points of each polyline go
\* to the one buffer coords, and the closing test reads that buffer
RECURSIVE GisPolylines(_, _, _)
GisPolylines(geoms, coords, counts) ==
    IF geoms = << >> THEN AGResult("", FALSE, "MultiLineString", coords, counts)
    ELSE LET geom == Head(geoms)
             appended == coords \o geom.points
             close == /\ Len(appended) > 2
                      /\ geom.closed
                      /\ appended[1] # appended[Len(appended)]
         IN GisPolylines(Tail(geoms),
                         IF close THEN Append(appended, appended[1]) ELSE appended,
                         Append(counts, Lens(<< Len(geom.points)
                                                  + (IF close THEN 1 ELSE 0) >>)))

\* the rings of a GIS polygon in the order they are written
\* (converter_utils.py:100-112)
VoidsFirst(polygon) == polygon.voids \o << polygon.boundary >>
PolygonRings(polygon) == << polygon.boundary >> \o polygon.voids

\* GIS polygons (converter_utils.py:97-112)
RECURSIVE GisPolygons(_, _, _)
GisPolygons(geoms, coords, counts) ==
    IF geoms = << >> THEN AGResult("", FALSE, "MultiPolygon", coords, counts)
    ELSE LET rings == PolygonRings(Head(geoms)) IN
         GisPolygons(Tail(geoms),
                     coords \o FlattenSeq([ k \in 1..Len(rings) |-> rings[k].points ]),
                     Append(counts,
                            Lens([ k \in 1..Len(rings) |-> Len(rings[k].points) ])))

assign_geometry(f_base) ==
    IF f_base.cls = "Point" THEN
        AGResult("", FALSE, "MultiPoint", << << f_base.x, f_base.y >> >>,
                 << NoneEntry, Lens(<< 1 >>) >>)
    ELSE IF f_base.cls = "Mesh" THEN MeshGeometry(f_base.faces, f_base.vertices)
    ELSE IF f_base.cls = "Brep" THEN
        IF f_base.dvKind = "None" \/ (f_base.dvKind = "list" /\ f_base.dvItems = << >>)
        THEN AGResult("", TRUE, "MultiPolygon", << >>, << >>)
        ELSE IF f_base.dvItems[1].cls = "NoneType"
        THEN AGResult("AttributeError", FALSE, "MultiPolygon", << >>, << >>)
        ELSE MeshGeometry(f_base.dvItems[1].faces, f_base.dvItems[1].vertices)
    ELSE IF f_base.cls = "NoneType" THEN AGResult("AttributeError", FALSE, "", << >>, << >>)
    ELSE IF IsGisFeature(f_base) /\ Len(f_base.geometry) > 0 THEN
        IF f_base.geometry[1].cls = "Point" THEN GisPoints(f_base.geometry)
        ELSE IF f_base.geometry[1].cls = "Polyline"
        THEN GisPolylines(f_base.geometry, << >>, << NoneEntry >>)
        ELSE IF f_base.geometry[1].cls = "GisPolygonGeometry"
        THEN GisPolygons(f_base.geometry, << >>, << NoneEntry >>)
        ELSE AGResult("", FALSE, "", << >>, << >>)
    ELSE IF f_base.cls = "Line" THEN LineString(f_base.points)
    ELSE IF f_base.cls = "Polyline" THEN
        LineString(CloseIfOpen(f_base.points, f_base.closed))
    ELSE IF f_base.cls = "Curve" THEN
        IF f_base.dvKind # "obj" \/ f_base.dvItems[1].cls = "NoneType"
        THEN AGResult("AttributeError", FALSE, "LineString", << >>, << >>)
        ELSE LineString(CloseIfOpen(f_base.dvItems[1].points, f_base.dvItems[1].closed))
    ELSE AGResult("", FALSE, "", << >>, << >>)


-----------------------------------------------------------------------------
(* Property extraction and display properties *)

Denylist == { "geometry", "units", "totalChildrenCount", "vertices", "faces",
              "displayValue", "displayStyle", "textureCoordinates", "renderMaterial" }

\* Python dict update props[k] = v
DictSet(props, k, v) == (k :> v) @@ props

\* a value that carries its Python type: tag is "str", "int", "bool", "none"
\* for the primitives and "base", "list", "dict" for the composites; text is
\* what str() gives for it
Value(tag, text) == [ tag |-> tag, text |-> text ]
PrimTags == { "str", "int", "bool", "none" }

\* str(value): a string whose characters are the text of the value
KeepValue(value) == value
PyStr(value) == Value("str", value.text)

RECURSIVE assign_props(_, _)
assign_props(ms, props) ==
    IF ms = << >> THEN props
    ELSE LET m == Head(ms) IN
         IF m.name \in Denylist THEN assign_props(Tail(ms), props)
         ELSE IF m.kind = "base" /\ m.name = "attributes"
              THEN assign_props(Tail(ms), assign_props(m.sub, props))
         ELSE IF m.kind \in { "base", "list", "dict" }
              THEN assign_props(Tail(ms), DictSet(props, m.name, PyStr(m.val)))
         ELSE assign_props(Tail(ms), DictSet(props, m.name, m.val))

\* for prop in feature["properties"]: if prop not in all_props: append
KeepAllProps(seen, props) == seen
UpdateAllProps(seen, props) == seen \cup DOMAIN props

\* the null placeholder of a back-filled property
NullValue == "None"

assign_missing_props(features, names) ==
    [ k \in 1..Len(features) |->
        [ features[k] EXCEPT !.properties =
            [ n \in (names \ DOMAIN features[k].properties) |-> NullValue ]
              @@ features[k].properties ] ]

\* get_r_g_b and the hex form of DEFAULT_COLOR (150, 150, 150)
DefaultHexColor == "#969696"

\* lineWidth in tenths: 0.3 for meshes and breps, 3 for lines, 1 otherwise
LineWidth10(f_base, gtype) ==
    IF f_base.cls \in { "Mesh", "Brep" } THEN 3
    ELSE IF gtype \in { "LineString", "MultiLineString" } THEN 30
    ELSE 10

assign_display_properties(props, f_base, gtype) ==
    [ color |-> DefaultHexColor,
      lineWidth10 |-> LineWidth10(f_base, gtype),
      radius |-> IF "weight" \in DOMAIN props THEN props["weight"] ELSE 10 ]

SetMin(S) == CHOOSE m \in S : \A z \in S : m <= z
SetMax(S) == CHOOSE m \in S : \A z \in S : m >= z

get_feature_bbox(coords) ==
    LET xs == { coords[k][1] : k \in 1..Len(coords) }
        ys == { coords[k][2] : k \in 1..Len(coords) }
    IN << SetMin(xs), SetMin(ys), SetMax(xs), SetMax(ys) >>


-----------------------------------------------------------------------------
(* The inputs of a run *)

Collection == Obj("Collection", "col", "Speckle.Core.Models.Collection",
                  None, None, FALSE, "None", << >>, 0, 0)
\* a well-formed triangle
Tri == WithMembers(MeshObj("tri", Some(<< 3, 0, 1, 2 >>), Some(Verts3)),
                   << Member("name", "prim", "roof", << >>) >>)
\* the face list ends before the declared count of 3 is satisfied
Trunc == MeshObj("trunc", Some(<< 3, 0, 1 >>), Some(Verts3))
\* a vertex index outside the vertex buffer
Oob == MeshObj("oob", Some(<< 3, 0, 1, 5 >>), Some(Verts3))
\* a mesh received without its vertex buffer
NoVerts == MeshObj("noverts", Some(<< 3, 0, 1, 2 >>), None)
BrepNone == BrepObj("brepnone", "None", << >>)
BrepEmpty == BrepObj("brepempty", "list", << >>)
Pt == WithMembers(PointObj("pt", 4, 2), << Member("level", "prim", "L1", << >>) >>)
\* a type the decoder does not support
Txt == Obj("Text", "txt", "Objects.Other.Text", None, None, FALSE, "None", << >>, 0, 0)
\* a composite whose displayValue holds a mesh and a point
Comp == Obj("Base", "comp", "Objects.BuiltElements.Wall", None, None, TRUE, "list",
            << MeshObj("cm", Some(<< 0, 2, 1, 0 >>), Some(Verts3)), PointObj("cp", 1, 1) >>,
            0, 0)

\* a point whose attributes object carries a field named FID
Parcel == WithMembers(PointObj("parcel", 1, 3),
              << Member("attributes", "base", "Base",
                        << Member("FID", "prim", 7, << >>) >>) >>)

NodePool == { Collection, Tri, Trunc, Oob, NoVerts, BrepNone, BrepEmpty, Pt, Txt, Comp,
              Parcel }

\* a comment thread: its id, its position and the number of its messages
Comment(id, position, n) == [ id |-> id, position |-> position, items |-> n ]
CommentPool == { Comment("c1", PointObj("", 3, 1), 1), Comment("c2", NoneObj, 2) }

\* speckle_type.endswith("Collection") or ("Layer") or ("Proxy")
IsContainer(obj) ==
    obj.speckle_type \in { "Speckle.Core.Models.Collection", "Objects.GIS.VectorLayer",
                           "Objects.GIS.RasterLayer", "Objects.Other.RenderMaterialProxy" }

EmptyMessage == << >>
LimitMessage(l) == << " (feature count limited to ", l, ")" >>

-----------------------------------------------------------------------------
(* feature_utils.initialize_features *)

\* try: assign_geometry(...) / except TypeError: raise / except Exception: pass
\* (feature_utils.py:62-68, 111-117); raise is the exception passed on
TryGeometryReraise(obj) ==
    LET g == assign_geometry(obj) IN
    IF g.none \/ g.exc = "TypeError"
    THEN [ raise |-> "TypeError", type |-> "", coords |-> << >>, coord_counts |-> << >> ]
    ELSE IF g.exc # ""
    THEN [ raise |-> "", type |-> g.type, coords |-> << >>, coord_counts |-> << >> ]
    ELSE [ raise |-> "", type |-> g.type, coords |-> g.coords, coord_counts |-> g.coord_counts ]

\* try: assign_geometry(...) / except Exception: pass (feature_utils.py:158-162)
TryGeometryCatchAll(obj) ==
    LET g == assign_geometry(obj) IN
    IF g.none \/ g.exc # ""
    THEN [ raise |-> "", type |-> g.type, coords |-> << >>, coord_counts |-> << >> ]
    ELSE [ raise |-> "", type |-> g.type, coords |-> g.coords, coord_counts |-> g.coord_counts ]

\* the feature dict of feature_utils.py:41-53 once geometry, properties,
\* display properties and bbox are assigned (lines 74-84); the initial
\* displayProperties {"object_type": "geometry"} is replaced by
\* assign_display_properties (display_utils.py:151)
NewFeature(f_base, f_id, f_fid, g, withProps) ==
    LET props0 == [ id |-> f_id, FID |-> f_fid, speckle_type |-> f_base.speckle_type ]
        props == IF withProps THEN assign_props(f_base.members, props0) ELSE props0
    IN [ type |-> "Feature",
         geometry |-> [ type |-> g.type ],
         displayProperties |-> assign_display_properties(props, f_base, g.type),
         properties |-> props,
         bbox |-> get_feature_bbox(g.coords) ]

\* data["features"].append(feature) (feature_utils.py:85, 128)
PrependFeature(features, feature) == << feature >> \o features
EmitFeature(features, feature) == Append(features, feature)

\* the limit test at the head of the node loop (feature_utils.py:28)
LimitHit(count, l) == count >= l

\* the limit test at the head of the comment loop (feature_utils.py:136)
CommentLimitHit(n, l) == n >= l

\* one display object per item of a list displayValue (the items of the
\* pool's composite are of pairwise different types), the single display
\* object otherwise, the node itself when it has no displayValue
find_list_of_display_obj(obj) ==
    IF ~obj.hasDV THEN << obj >>
    ELSE IF obj.dvKind = "None" THEN << >>
    ELSE IF obj.dvKind = "obj" THEN << obj.dvItems[1] >>
    ELSE SelectSeq(obj.dvItems, LAMBDA it : it.cls # "NoneType")

\* the loop over list_of_display_obj (feature_utils.py:91-129), from its
\* k-th element on; acc holds features, coords, counts, count and raise
RECURSIVE DecomposeLoop(_, _, _, _)
DecomposeLoop(f_base, objs, k, acc) ==
    IF k > Len(objs) THEN acc
    ELSE LET g == TryGeometryReraise(objs[k]) IN
         IF g.raise # "" THEN [ acc EXCEPT !.raise = g.raise ]
         ELSE IF g.coords = << >> THEN DecomposeLoop(f_base, objs, k + 1, acc)
         ELSE DecomposeLoop(f_base, objs, k + 1,
                [ features |-> EmitFeature(acc.features,
                      NewFeature(f_base, << f_base.id, k - 1 >>, acc.count + 1, g, FALSE)),
                  coords |-> acc.coords \o g.coords,
                  counts |-> Append(acc.counts, g.coord_counts),
                  count |-> acc.count + 1,
                  raise |-> "" ])

inLoop == pc = "loop" /\ requested_data_type # "projectcomments"
atNode == inLoop /\ idx <= Len(context_list)

\* feature_utils.py:25-26
SkipContainer ==
    /\ atNode
    /\ IsContainer(context_list[idx])
    /\ idx' = idx + 1
    /\ UNCHANGED << preserve_attributes, requested_data_type, limit, limit_message,
                    context_list, comments, data, all_coords, all_coord_counts,
                    all_props, feature_count, pc, exc >>

\* feature_utils.py:28-30, then line 131
LimitReached ==
    /\ atNode
    /\ ~IsContainer(context_list[idx])
    /\ LimitHit(feature_count, limit)
    /\ limit_message' = LimitMessage(limit)
    /\ data' = [ data EXCEPT !.features = assign_missing_props(data.features, all_props) ]
    /\ pc' = "check"
    /\ UNCHANGED << preserve_attributes, requested_data_type, limit, context_list,
                    comments, all_coords, all_coord_counts, all_props, feature_count,
                    idx, exc >>

\* feature_utils.py:32-86
ProcessNodePreserve ==
    /\ atNode
    /\ ~IsContainer(context_list[idx])
    /\ ~LimitHit(feature_count, limit)
    /\ preserve_attributes = "true"
    /\ LET f_base == context_list[idx]
           d == find_display_obj(f_base)
           g == TryGeometryReraise(d.displayVal)
           feature == NewFeature(f_base, f_base.id, feature_count + 1, g, TRUE)
       IN IF d.exc # "" \/ g.raise # ""
          THEN /\ pc' = "raised"
               /\ exc' = IF d.exc # "" THEN d.exc ELSE g.raise
               /\ UNCHANGED << data, all_coords, all_coord_counts, all_props,
                               feature_count, idx >>
          ELSE IF g.coords = << >>
          THEN /\ idx' = idx + 1
               /\ UNCHANGED << data, all_coords, all_coord_counts, all_props,
                               feature_count, pc, exc >>
          ELSE /\ all_coords' = all_coords \o g.coords
               /\ all_coord_counts' = Append(all_coord_counts, g.coord_counts)
               /\ all_props' = UpdateAllProps(all_props, feature.properties)
               /\ data' = [ data EXCEPT !.features = EmitFeature(@, feature) ]
               /\ feature_count' = feature_count + 1
               /\ idx' = idx + 1
               /\ UNCHANGED << pc, exc >>
    /\ UNCHANGED << preserve_attributes, requested_data_type, limit, limit_message,
                    context_list, comments >>

\* feature_utils.py:88-129
ProcessNodeDecompose ==
    /\ atNode
    /\ ~IsContainer(context_list[idx])
    /\ ~LimitHit(feature_count, limit)
    /\ preserve_attributes # "true"
    /\ LET f_base == context_list[idx]
           r == DecomposeLoop(f_base, find_list_of_display_obj(f_base), 1,
                    [ features |-> data.features, coords |-> all_coords,
                      counts |-> all_coord_counts, count |-> feature_count,
                      raise |-> "" ])
       IN /\ data' = [ data EXCEPT !.features = r.features ]
          /\ all_coords' = r.coords
          /\ all_coord_counts' = r.counts
          /\ feature_count' = r.count
          /\ IF r.raise # ""
             THEN pc' = "raised" /\ exc' = r.raise /\ idx' = idx
             ELSE idx' = idx + 1 /\ UNCHANGED << pc, exc >>
    /\ UNCHANGED << preserve_attributes, requested_data_type, limit, limit_message,
                    context_list, comments, all_props >>

\* the node loop runs out; feature_utils.py:131
NodesDone ==
    /\ inLoop
    /\ idx > Len(context_list)
    /\ data' = [ data EXCEPT !.features = assign_missing_props(data.features, all_props) ]
    /\ pc' = "check"
    /\ UNCHANGED << preserve_attributes, requested_data_type, limit, limit_message,
                    context_list, comments, all_coords, all_coord_counts, all_props,
                    feature_count, idx, exc >>

inComments == pc = "loop" /\ requested_data_type = "projectcomments"

\* feature_utils.py:136-138
CommentLimitReached ==
    /\ inComments
    /\ idx <= Len(comments)
    /\ CommentLimitHit(Len(data.comments), limit)
    /\ limit_message' = LimitMessage(limit)
    /\ pc' = "check"
    /\ UNCHANGED << preserve_attributes, requested_data_type, limit, context_list,
                    comments, data, all_coords, all_coord_counts, all_props,
                    feature_count, idx, exc >>

\* feature_utils.py:140-168
ProcessComment ==
    /\ inComments
    /\ idx <= Len(comments)
    /\ ~CommentLimitHit(Len(data.comments), limit)
    /\ LET comment == comments[idx]
           g == TryGeometryCatchAll(comment.position)
           feature == [ type |-> "Feature", id |-> comment.id,
                        geometry |-> [ type |-> g.type ],
                        displayProperties |-> [ object_type |-> "comment" ],
                        properties |-> [ messages |-> comment.items ] ]
       IN IF g.coords = << >>
          THEN UNCHANGED << data, all_coords, all_coord_counts >>
          ELSE /\ all_coords' = all_coords \o g.coords
               /\ all_coord_counts' = Append(all_coord_counts, g.coord_counts)
               /\ data' = [ data EXCEPT !.comments = Append(@, feature) ]
    /\ idx' = idx + 1
    /\ UNCHANGED << preserve_attributes, requested_data_type, limit, limit_message,
                    context_list, comments, all_props, feature_count, pc, exc >>

\* the comment loop runs out
CommentsDone ==
    /\ inComments
    /\ idx > Len(comments)
    /\ pc' = "check"
    /\ UNCHANGED << preserve_attributes, requested_data_type, limit, limit_message,
                    context_list, comments, data, all_coords, all_coord_counts,
                    all_props, feature_count, idx, exc >>

\* feature_utils.py:171
NothingProduced(d) == Len(d.features) = 0 /\ Len(d.comments) = 0

\* feature_utils.py:171-177
FinalCheck ==
    /\ pc = "check"
    /\ IF NothingProduced(data)
       THEN pc' = "raised" /\ exc' = "ValueError"
       ELSE pc' = "returned" /\ exc' = exc
    /\ UNCHANGED << preserve_attributes, requested_data_type, limit, limit_message,
                    context_list, comments, data, all_coords, all_coord_counts,
                    all_props, feature_count, idx >>


-----------------------------------------------------------------------------
(* SpeckleProvider.assign_geometry (mesh branch), reproject_2d_coords_list *)

\* the pointwise transforms standing for offset_rotate followed by the
\* pyproj transformer: a translation, an axis swap and a collapse to one point
Transforms == { "shift", "swap", "collapse" }

TransformPoint(tr, pt) ==
    IF tr = "shift" THEN << pt[1] + 10, pt[2] - 3 >>
    ELSE IF tr = "swap" THEN << pt[2], pt[1] >>
    ELSE << 0, 0 >>

\* [[pt[0], pt[1]] for pt in transformer.itransform(coords_offset)]
reproject_2d_coords_list(tr, coords_in) ==
    [ k \in 1..Len(coords_in) |-> TransformPoint(tr, coords_in[k]) ]

\* the enumerate loop over faces (speckle.py:516-540): the face counts and
\* the flat list of boundary points
RECURSIVE ProviderFaces(_, _, _, _, _, _)
ProviderFaces(faces, vertices, i, count, flat, counts) ==
    IF i >= Len(faces) THEN [ exc |-> "", flat |-> flat, counts |-> counts ]
    ELSE IF i # count THEN ProviderFaces(faces, vertices, i + 1, count, flat, counts)
    ELSE LET stored == faces[i + 1]
             pt_count == IF stored = 0 THEN 3 ELSE IF stored = 1 THEN 4 ELSE stored
             ring == RingCoords(PySlice(faces, count + 1, count + 1 + pt_count),
                                vertices, << >>)
         IN IF ring.exc # "" THEN [ exc |-> ring.exc, flat |-> << >>, counts |-> << >> ]
            ELSE ProviderFaces(faces, vertices, i + 1, count + pt_count + 1,
                               flat \o ring.coords, Append(counts, pt_count))

\* one slicing step (speckle.py:546-549): the ring cut off and the rest
SliceRing(buf, face_c) == PySlice(buf, 0, face_c)
SliceRestOffByOne(buf, face_c) == PySlice(buf, face_c + 1, Len(buf))
SliceRest(buf, face_c) == PySlice(buf, face_c, Len(buf))

\* the re-slicing loop (speckle.py:545-549): one polygon [ring] per face count
RECURSIVE Reslice(_, _)
Reslice(counts, buf) ==
    IF counts = << >> THEN << >>
    ELSE << << SliceRing(buf, Head(counts)) >> >>
         \o Reslice(Tail(counts), SliceRest(buf, Head(counts)))

\* geometry["coordinates"] of a mesh (speckle.py:493-549)
ProviderMeshCoordinates(faces, vertices, tr) ==
    LET d == ProviderFaces(faces, Some(vertices), 0, 0, << >>, << >>)
    IN Reslice(d.counts, reproject_2d_coords_list(tr, d.flat))

\* well-formed faces: a stored count (0 for 3, 1 for 4) and its indices
Face(stored, ix) == [ stored |-> stored, idx |-> ix ]
TriIdx == { << 0, 1, 2 >>, << 3, 4, 1 >>, << 4, 0, 3 >> }
QuadIdx == { << 0, 1, 2, 3 >>, << 4, 3, 1, 0 >> }
FaceCatalog ==
    { Face(c, ix) : c \in { 0, 3 }, ix \in TriIdx } \cup
    { Face(c, ix) : c \in { 1, 4 }, ix \in QuadIdx } \cup
    { Face(5, << 0, 1, 2, 3, 4 >>) }

\* the flat face list [count, index_1..index_N, count, ...]
RECURSIVE FlatFaces(_)
FlatFaces(shape) ==
    IF shape = << >> THEN << >>
    ELSE << Head(shape).stored >> \o Head(shape).idx \o FlatFaces(Tail(shape))

\* five vertices as flat x, y, z triples
VertexBuffers == { << 0, 0, 0, 1, 0, 0, 0, 1, 0, 5, 7, 9, 2, 6, 1 >>,
                   << 2, 3, 0, 4, 5, 0, 6, 7, 0, 8, 9, 0, 3, 8, 0 >> }

MeshIdle ==
    /\ m_faces = << >> /\ m_vertices = << >> /\ m_shape = << >> /\ m_tr = "shift"
    /\ m_pc = "idle" /\ m_conv = << >> /\ m_prov = << >>

MeshInit ==
    /\ m_shape \in SeqsUpTo(FaceCatalog, MaxFaces)
    /\ m_faces = FlatFaces(m_shape)
    /\ m_vertices \in VertexBuffers
    /\ m_tr \in Transforms
    /\ m_pc = "start"
    /\ m_conv = << >>
    /\ m_prov = << >>

\* converter_utils.assign_geometry on the mesh
MeshConverter ==
    /\ m_pc = "start"
    /\ m_conv' = assign_geometry(MeshObj("m", Some(m_faces), Some(m_vertices)))
    /\ m_pc' = "converter"
    /\ UNCHANGED << m_faces, m_vertices, m_shape, m_tr, m_prov >>

\* SpeckleProvider.assign_geometry on the mesh
MeshProvider ==
    /\ m_pc = "converter"
    /\ m_prov' = ProviderMeshCoordinates(m_faces, m_vertices, m_tr)
    /\ m_pc' = "provider"
    /\ UNCHANGED << m_faces, m_vertices, m_shape, m_tr, m_conv >>

-----------------------------------------------------------------------------
(* SpeckleProvider.offset_rotate *)

MaxPoints == 2

\* cos and sin of a rotation given in degrees, exact for the quarter turns
\* the model draws the rotation from
Rotations == { 0, 90, 180, 270 }
Cos(deg) == IF deg = 0 THEN 1 ELSE IF deg = 180 THEN -1 ELSE 0
Sin(deg) == IF deg = 90 THEN 1 ELSE IF deg = 270 THEN -1 ELSE 0

\* crs["units_native"]: an Optional string; get_scale_factor_from_string(u, "m")
UnitsNative == { None, Some("m"), Some("km") }
get_scale_factor_from_string(u) == IF u = "km" THEN 1000 ELSE 1

\* speckle.py:618-620
ScaleFactor(crs) ==
    IF IsNone(crs.units_native) THEN 1
    ELSE get_scale_factor_from_string(crs.units_native[1])

\* speckle.py:624-632, one point
OffsetRotatePoint(crs, coord, scale_factor) ==
    LET x2 == coord[1] * Cos(crs.rotation) - coord[2] * Sin(crs.rotation)
        y2 == coord[1] * Sin(crs.rotation) + coord[2] * Cos(crs.rotation)
    IN << scale_factor * (x2 + crs.offset_x), scale_factor * (y2 + crs.offset_y) >>

\* speckle.py:614-634
offset_rotate(crs, coords_in) ==
    [ k \in 1..Len(coords_in) |-> OffsetRotatePoint(crs, coords_in[k], ScaleFactor(crs)) ]

PointPool == { << 1, 0 >>, << 0, 2 >>, << -1, 3 >> }

OffIdle ==
    /\ o_crs = << >> /\ o_in = << >> /\ o_out = << >> /\ o_pc = "idle"

OffInit ==
    /\ o_crs \in [ rotation : Rotations, offset_x : { 0, 5 }, offset_y : { 0, -7 },
                   units_native : UnitsNative ]
    /\ o_in \in SeqsUpTo(PointPool, MaxPoints)
    /\ o_out = << >>
    /\ o_pc = "start"

OffsetRotate ==
    /\ o_pc = "start"
    /\ o_out' = offset_rotate(o_crs, o_in)
    /\ o_pc' = "done"
    /\ UNCHANGED << o_crs, o_in >>

-----------------------------------------------------------------------------
(* The line branches of converter_utils.assign_geometry *)

LinePointPool == { << 0, 0 >>, << 2, 0 >>, << 2, 2 >> }

PolylineObj(pts, closed) ==
    [ Obj("Polyline", "pl", "Objects.Geometry.Polyline", None, None, FALSE, "None",
          << >>, 0, 0) EXCEPT !.points = pts, !.closed = closed ]
CurveObj(pts, closed) ==
    Obj("Curve", "cv", "Objects.Geometry.Curve", None, None, TRUE, "obj",
        << PolylineObj(pts, closed) >>, 0, 0)
LineObj(start, end) ==
    [ Obj("Line", "ln", "Objects.Geometry.Line", None, None, FALSE, "None",
          << >>, 0, 0) EXCEPT !.points = << start, end >> ]

LineInputs ==
    { PolylineObj(pts, c) : pts \in SeqsUpTo(LinePointPool, MaxLinePoints), c \in BOOLEAN }
    \cup { CurveObj(pts, c) : pts \in SeqsUpTo(LinePointPool, MaxLinePoints), c \in BOOLEAN }
    \cup { LineObj(a, b) : a \in LinePointPool, b \in LinePointPool }

LineIdle == l_obj = NoneObj /\ l_out = << >> /\ l_pc = "idle"

LineInit == l_obj \in LineInputs /\ l_out = << >> /\ l_pc = "start"

LineConverter ==
    /\ l_pc = "start"
    /\ l_out' = assign_geometry(l_obj)
    /\ l_pc' = "done"
    /\ UNCHANGED l_obj

-----------------------------------------------------------------------------
(* SpeckleProvider.traverse_data: CRS resolution *)

\* self.lat and self.lon of __init__ in thousandths of a degree
DefaultLat == 51525
DefaultLon == 162

\* the parameters of the synthesized WKT (speckle.py:432, crs_utils.py:23)
DefaultWkt(lat, lon) ==
    [ projection |-> "Transverse_Mercator", false_easting |-> 0, false_northing |-> 0,
      central_meridian |-> lon, scale_factor |-> 1, latitude_of_origin |-> lat ]

\* a crs declared by a layer
LayerCrs(zone, units) ==
    [ wkt |-> [ projection |-> "Transverse_Mercator", false_easting |-> 500000,
                false_northing |-> 0, central_meridian |-> zone, scale_factor |-> 1,
                latitude_of_origin |-> 0 ],
      offset_x |-> 5, offset_y |-> -7, rotation |-> 90, units_native |-> units ]

\* item.current of a traversal context: layer says speckle_type ends with
\* "Layer", hasCrs is hasattr(item.current, "crs"), supported says its type
\* is one of supported_types, units is item.current.units
Item(layer, hasCrs, crs, supported, units) ==
    [ layer |-> layer, hasCrs |-> hasCrs, crs |-> crs, supported |-> supported,
      units |-> units ]

ItemPool ==
    { Item(TRUE, TRUE, LayerCrs(3, Some("m")), FALSE, None),
      Item(TRUE, TRUE, LayerCrs(9, None), FALSE, None),
      Item(TRUE, FALSE, None, FALSE, None),
      Item(FALSE, FALSE, None, TRUE, Some("km")),
      Item(FALSE, FALSE, None, TRUE, Some("m")) }

\* the loop of speckle.py:418-428 from its k-th item on
RECURSIVE FindCrsLast(_, _, _, _)
FindCrsLast(items, k, crs, displayUnits) ==
    IF k > Len(items) THEN [ crs |-> crs, displayUnits |-> displayUnits ]
    ELSE IF items[k].layer /\ items[k].hasCrs
    THEN FindCrsLast(items, k + 1, Some(items[k].crs), items[k].crs.units_native)
    ELSE FindCrsLast(items, k + 1, crs, displayUnits)
RECURSIVE FindCrs(_, _, _, _)
FindCrs(items, k, crs, displayUnits) ==
    IF k > Len(items) THEN [ crs |-> crs, displayUnits |-> displayUnits ]
    ELSE IF IsNone(crs) /\ items[k].layer /\ items[k].hasCrs
    THEN [ crs |-> Some(items[k].crs), displayUnits |-> items[k].crs.units_native ]
    ELSE IF IsNone(displayUnits) /\ items[k].supported
    THEN FindCrs(items, k + 1, crs, items[k].units)
    ELSE FindCrs(items, k + 1, crs, displayUnits)

CrsIdle ==
    /\ t_self = << >> /\ t_ctx = << >> /\ t_crs = None /\ t_used = << >> /\ t_pc = "idle"

CrsInit ==
    /\ t_self \in [ lat : { DefaultLat, 10000 }, lon : { DefaultLon, 20000 },
                    north_degrees : { 0, 270 } ]
    /\ t_ctx \in SeqsUpTo(ItemPool, MaxItems)
    /\ t_crs = None
    /\ t_used = << >>
    /\ t_pc = "start"

\* speckle.py:415-439
ResolveCrs ==
    /\ t_pc = "start"
    /\ LET found == FindCrs(t_ctx, 1, None, None) IN
       t_crs' = IF IsNone(found.crs)
                THEN Some([ wkt |-> DefaultWkt(t_self.lat, t_self.lon),
                            offset_x |-> 0, offset_y |-> 0,
                            rotation |-> t_self.north_degrees,
                            units_native |-> found.displayUnits ])
                ELSE found.crs
    /\ t_pc' = "features"
    /\ UNCHANGED << t_self, t_ctx, t_used >>

\* one iteration of speckle.py:447-476: self.assign_geometry(crs, feature,
\* f_base), whose coordinates pass through offset_rotate(crs, ...) (605, 614-620)
ConvertItem ==
    /\ t_pc = "features"
    /\ Len(t_used) < Len(t_ctx)
    /\ t_used' = Append(t_used, [ crs |-> t_crs[1], scale_factor |-> ScaleFactor(t_crs[1]) ])
    /\ UNCHANGED << t_self, t_ctx, t_crs, t_pc >>

\* speckle.py:478
TraverseReturn ==
    /\ t_pc = "features"
    /\ Len(t_used) = Len(t_ctx)
    /\ t_pc' = "done"
    /\ UNCHANGED << t_self, t_ctx, t_crs, t_used >>

-----------------------------------------------------------------------------
(* feature_utils.create_features: the bulk reprojection after the features *)
(* were initialized                                                        *)

\* the ring lengths recorded in a list of length encodings, summed
RECURSIVE TotalCount(_)
TotalCount(encs) ==
    IF encs = << >> THEN 0
    ELSE SumSeq([ k \in 1..Len(Head(encs)) |-> SumSeq(Head(encs)[k].lens) ])
         + TotalCount(Tail(encs))

\* the buffer cut back into one list of points per feature, by the point
\* totals of the length encodings (the nesting into parts and rings is left
\* out)
RECURSIVE ExpandBuffer(_, _)
ExpandBuffer(buf, encs) ==
    IF encs = << >> THEN << >>
    ELSE LET n == TotalCount(<< Head(encs) >>) IN
         << PySlice(buf, 0, n) >> \o ExpandBuffer(PySlice(buf, n, Len(buf)), Tail(encs))

\* coords_utils.reproject_bulk: the whole buffer is transformed in one pass
\* and written back into the geometry dicts it was given
reproject_bulk(tr, coords, counts, geometries) ==
    LET parts == ExpandBuffer(reproject_2d_coords_list(tr, coords), counts) IN
    [ k \in 1..Len(geometries) |->
        [ type |-> geometries[k].type, coordinates |-> parts[k] ] ]

\* feature_utils.py:234-236, after initialize_features has returned
CreateFeaturesReproject ==
    /\ pc = "returned"
    /\ \E tr \in Transforms :
         LET nf == Len(data.features)
             all_features == data.features \o data.comments
             geoms == reproject_bulk(tr, all_coords, all_coord_counts,
                          [ k \in 1..Len(all_features) |-> all_features[k].geometry ])
         IN data' = [ features |-> [ k \in 1..nf |->
                                      [ data.features[k] EXCEPT !.geometry = geoms[k] ] ],
                      comments |-> [ k \in 1..Len(data.comments) |->
                                      [ data.comments[k] EXCEPT !.geometry = geoms[nf + k] ] ] ]
    /\ pc' = "reprojected"
    /\ UNCHANGED << preserve_attributes, requested_data_type, limit, limit_message,
                    context_list, comments, all_coords, all_coord_counts, all_props,
                    feature_count, idx, exc >>

-----------------------------------------------------------------------------
(* url_utils.get_set_url_parameters and crs_utils.create_crs_dict *)

\* one "&" item of self.data.lower(): the parameter name before "=", the
\* float its value parses to (None when float() raises) and the length of
\* the value
Param(key, num, len) == [ key |-> key, num |-> num, len |-> len ]

ParamPool ==
    { Param("crsauthid", None, 9), Param("lat", Some(10000), 2), Param("lat", None, 3),
      Param("lon", Some(20000), 2), Param("northdegrees", Some(270), 3),
      Param("limit", Some(5), 1) }

\* the loop of url_utils.py:17-39 from its k-th item on; authid_len is
\* len(crs_authid)
RECURSIVE ApplyParams(_, _, _, _)
ApplyParams(items, k, self, authid_len) ==
    IF k > Len(items) THEN [ self |-> self, authid_len |-> authid_len ]
    ELSE LET item == items[k]
             set(field) == IF IsNone(item.num) THEN self
                           ELSE [ self EXCEPT ![field] = item.num[1] ]
         IN IF item.key = "crsauthid" THEN ApplyParams(items, k + 1, self, item.len)
            ELSE IF item.key = "lat" THEN ApplyParams(items, k + 1, set("lat"), authid_len)
            ELSE IF item.key = "lon" THEN ApplyParams(items, k + 1, set("lon"), authid_len)
            ELSE IF item.key = "northdegrees"
            THEN ApplyParams(items, k + 1, set("north_degrees"), authid_len)
            ELSE ApplyParams(items, k + 1, self, authid_len)

UrlIdle == u_data = << >> /\ u_self = << >> /\ u_pc = "idle" /\ u_exc = ""

\* the provider after the assignments of SpeckleProvider.__init__
UrlInit ==
    /\ u_data \in [ valid : BOOLEAN, items : SeqsUpTo(ParamPool, MaxParams) ]
    /\ u_self = [ lat |-> DefaultLat, lon |-> DefaultLon, north_degrees |-> 0,
                  crs |-> None, crs_dict |-> None ]
    /\ u_pc = "start"
    /\ u_exc = ""

\* url_utils.py:6-43.  The call of line 43 passes no authid although
\* create_crs_from_authid(self, authid) requires one: as written it raises a
\* TypeError, with the authid bound by role it sets self.crs
\* (crs_utils.py:9-15); both outcomes are kept.
get_set_url_parameters ==
    /\ u_pc = "start"
    /\ IF ~u_data.valid
       THEN u_pc' = "params" /\ UNCHANGED << u_self, u_exc >>
       ELSE LET r == ApplyParams(u_data.items, 1, u_self, 0) IN
            IF r.authid_len > 3
            THEN \/ /\ u_self' = r.self
                    /\ u_pc' = "raised" /\ u_exc' = "TypeError"
                 \/ /\ u_self' = [ r.self EXCEPT !.crs = Some("epsg:4326") ]
                    /\ u_pc' = "params" /\ UNCHANGED u_exc
            ELSE u_self' = r.self /\ u_pc' = "params" /\ UNCHANGED u_exc
    /\ UNCHANGED u_data

\* crs_utils.py:27-38
create_crs_dict ==
    /\ u_pc = "params"
    /\ \E offset_x \in { 0, 5 }, displayUnits \in UnitsNative :
         u_self' = IF ~IsNone(u_self.crs)
                   THEN [ u_self EXCEPT !.crs_dict =
                            Some([ wkt |-> << "wkt", u_self.crs[1] >>,
                                   offset_x |-> offset_x, offset_y |-> 0,
                                   rotation |-> u_self.north_degrees,
                                   units_native |-> displayUnits,
                                   obj |-> u_self.crs[1] ]) ]
                   ELSE u_self
    /\ u_pc' = "done"
    /\ UNCHANGED << u_data, u_exc >>

-----------------------------------------------------------------------------
(* display_utils: the default colour shared by the conversion runs *)

\* (255 << 24) + (r << 16) + (g << 8) + b, kept as its four bytes
Grey == << 255, 150, 150, 150 >>
Blue == << 255, 10, 132, 255 >>

\* (rgb & 0xFF0000) >> 16, (rgb & 0xFF00) >> 8, rgb & 0xFF
get_r_g_b(argb) == << argb[2], argb[3], argb[4] >>

\* item.current of a context: a VectorLayer, a mesh without colour of its
\* own, a mesh with a renderMaterial
ColorItems == { [ cls |-> "VectorLayer", diffuse |-> None ],
                [ cls |-> "Mesh", diffuse |-> None ],
                [ cls |-> "Mesh", diffuse |-> Some(<< 255, 200, 0, 0 >>) ] }

HasVectorLayer(ctx) == \E k \in 1..Len(ctx) : ctx[k].cls = "VectorLayer"

Runs == { 1, 2 }

ColorIdle == DEFAULT_COLOR = Grey /\ runs = << >>

ColorInit ==
    /\ DEFAULT_COLOR = Grey
    /\ runs \in [ Runs -> [ ctx : SeqsUpTo(ColorItems, MaxRunItems), pc : { "start" },
                            i : { 1 }, out : { << >> } ] ]

\* display_utils.py:87-99
set_default_color(r) ==
    /\ runs[r].pc = "start"
    /\ DEFAULT_COLOR' = IF HasVectorLayer(runs[r].ctx) THEN Blue ELSE Grey
    /\ runs' = [ runs EXCEPT ![r].pc = "features" ]

\* display_utils.py:101-132 for the next item of run r (containers are
\* skipped by the loop of initialize_features)
assign_color(r) ==
    /\ runs[r].pc = "features"
    /\ runs[r].i <= Len(runs[r].ctx)
    /\ LET item == runs[r].ctx[runs[r].i]
           color == IF IsNone(item.diffuse) THEN DEFAULT_COLOR ELSE item.diffuse[1]
       IN runs' = [ runs EXCEPT
                      ![r].i = @ + 1,
                      ![r].out = IF item.cls = "VectorLayer" THEN @
                                 ELSE Append(@, [ own |-> ~IsNone(item.diffuse),
                                                  color |-> get_r_g_b(color) ]) ]
    /\ UNCHANGED DEFAULT_COLOR

RunDone(r) ==
    /\ runs[r].pc = "features"
    /\ runs[r].i > Len(runs[r].ctx)
    /\ runs' = [ runs EXCEPT ![r].pc = "done" ]
    /\ UNCHANGED DEFAULT_COLOR

-----------------------------------------------------------------------------
(* SpeckleProvider.traverse_data: the traversal of the commit object *)

\* a node of the graph: kind is "terminal" when type(x) is one of
\* supported_types, "other" for any other Base and "prim" for a list element
\* that is no Base (a number of a faces or vertices list); lists holds the
\* values of the list-valued members
TNode(id, kind, lists) == [ id |-> id, kind |-> kind, lists |-> lists ]
Prim == TNode("", "prim", << >>)

\* the children a collection may hold: a mesh, a brep whose displayValue
\* list holds a mesh, a wall whose displayValue list holds a mesh, and a
\* nested collection holding a point and a polyline
ChildPool ==
    { TNode("mesh", "terminal", << << Prim, Prim, Prim >>, << Prim >> >>),
      TNode("brep", "terminal", << << TNode("brep-dv", "terminal", << << Prim >> >>) >> >>),
      TNode("wall", "other", << << TNode("wall-dv", "terminal", << << Prim >> >>) >> >>),
      TNode("layer", "other",
            << << TNode("pt", "terminal", << >>),
                  TNode("pl", "terminal", << << Prim, Prim >> >>) >>,
               << Prim >> >>) }

\* the second lambda of the rule (speckle.py:406-411): the list-valued
\* members of x, none for a supported type
AllListMembers(x) == x.lists
MembersToTraverse(x) == IF x.kind = "terminal" THEN << >> ELSE x.lists

\* the elements of the members that are Base objects, in push order
BaseElements(members) == SelectSeq(FlattenSeq(members), LAMBDA e : e.kind # "prim")

TravIdle == v_root = << >> /\ v_stack = << >> /\ v_ctx = << >>

TravInit ==
    /\ v_root \in { TNode("root", "other", << elements >>) :
                        elements \in SeqsUpTo(ChildPool, MaxChildren) }
               \cup ChildPool
    /\ v_stack = << v_root >>
    /\ v_ctx = << >>

\* one turn of the loop of GraphTraversal.traverse (speckle.py:413): the
\* head of the stack is yielded and the Base elements of the members the
\* rule names are pushed
TraverseStep ==
    /\ v_stack # << >>
    /\ LET head == v_stack[Len(v_stack)] IN
       /\ v_ctx' = Append(v_ctx, head)
       /\ v_stack' = SubSeq(v_stack, 1, Len(v_stack) - 1)
                       \o BaseElements(MembersToTraverse(head))
    /\ UNCHANGED v_root

-----------------------------------------------------------------------------
(* SpeckleProvider.assign_props on one node *)

\* the attributes of a GIS feature as a Base object: a field, a denylisted
\* member and a nested object
AttributesBase ==
    Member("attributes", "base", Value("base", "Base(zone)"),
           << Member("zone", "prim", Value("str", "A"), << >>),
              Member("units", "prim", Value("str", "m"), << >>),
              Member("owner", "base", Value("base", "Base(owner)"), << >>) >>)

\* the same attributes received as a plain dict
AttributesDict ==
    Member("attributes", "dict", Value("dict", "{'zone': 'A'}"),
           << Member("zone", "prim", Value("str", "A"), << >>) >>)

MemberPool ==
    { Member("name", "prim", Value("str", "roof"), << >>),
      Member("height", "prim", Value("int", "3"), << >>),
      Member("visible", "prim", Value("bool", "True"), << >>),
      Member("comment", "prim", Value("none", "None"), << >>),
      Member("faces", "list", Value("list", "[3, 0, 1, 2]"), << >>),
      Member("renderMaterial", "base", Value("base", "Base(material)"), << >>),
      Member("tags", "list", Value("list", "['a', 'b']"), << >>),
      Member("material", "base", Value("base", "Base(material)"), << >>),
      Member("parameters", "dict", Value("dict", "{'k': 1}"), << >>),
      AttributesBase, AttributesDict }

\* get_member_names() names every member once
DistinctNames(ms) == \A i, j \in 1..Len(ms) : i # j => ms[i].name # ms[j].name

PropIdle == p_obj = << >> /\ p_props = << >> /\ p_pc = "idle"

\* the properties of a new feature before assign_props (feature_utils.py:47-52)
PropInit ==
    /\ p_obj \in { ms \in SeqsUpTo(MemberPool, MaxMembers) : DistinctNames(ms) }
    /\ p_props = [ id |-> Value("str", "n1"), FID |-> Value("int", "1"),
                   speckle_type |-> Value("str", "Base") ]
    /\ p_pc = "start"

AssignProps ==
    /\ p_pc = "start"
    /\ p_props' = assign_props(p_obj, p_props)
    /\ p_pc' = "done"
    /\ UNCHANGED p_obj

-----------------------------------------------------------------------------
(* assign_geometry on GIS features and on merged display meshes *)

GisFeatureObj(geoms) ==
    [ Obj("Base", "gis", "Objects.GIS.GisFeature", None, None, FALSE, "None",
          << >>, 0, 0) EXCEPT !.geometry = geoms ]

\* polylines of a GIS feature: open, closed with open ends (two of them,
\* starting at different points), closed with coinciding ends, and one
\* without points
GisPolylinePool ==
    { PolylineObj(<< << 0, 0 >>, << 2, 0 >> >>, FALSE),
      PolylineObj(<< << 0, 0 >>, << 2, 0 >>, << 2, 2 >> >>, TRUE),
      PolylineObj(<< << 5, 5 >>, << 7, 5 >>, << 7, 7 >> >>, TRUE),
      PolylineObj(<< << 5, 5 >>, << 7, 5 >>, << 5, 5 >> >>, TRUE),
      PolylineObj(<< >>, FALSE) }

GisPolygonGeometry(boundary, voids) ==
    [ cls |-> "GisPolygonGeometry", boundary |-> PolylineObj(boundary, FALSE),
      voids |-> [ k \in 1..Len(voids) |-> PolylineObj(voids[k], FALSE) ] ]

\* polygons without a hole, with one hole and with two holes of different
\* lengths
GisPolygonPool ==
    { GisPolygonGeometry(<< << 0, 0 >>, << 9, 0 >>, << 9, 9 >>, << 0, 9 >> >>, << >>),
      GisPolygonGeometry(<< << 0, 0 >>, << 9, 0 >>, << 0, 9 >> >>,
                         << << << 1, 1 >>, << 2, 1 >>, << 1, 2 >> >> >>),
      GisPolygonGeometry(<< << 0, 0 >>, << 9, 0 >>, << 9, 9 >>, << 0, 9 >> >>,
                         << << << 1, 1 >>, << 2, 1 >>, << 1, 2 >> >>,
                            << << 5, 5 >>, << 6, 5 >>, << 6, 6 >>, << 5, 6 >> >> >>) }

GisPointPool == { PointObj("p1", 1, 1), PointObj("p2", 3, 4) }

\* display meshes: a triangle and a quad with the counts 3 and 4, the same
\* with the historic counts 0 and 1, and a mesh of two faces
VertsB == << 5, 5, 0, 7, 5, 0, 5, 7, 0, 7, 7, 0 >>
DisplayMeshPool ==
    { MeshObj("tri3", Some(<< 3, 0, 1, 2 >>), Some(Verts3)),
      MeshObj("tri0", Some(<< 0, 0, 1, 2 >>), Some(VertsB)),
      MeshObj("quad4", Some(<< 4, 0, 1, 2, 3 >>), Some(Verts4)),
      MeshObj("quad1", Some(<< 1, 0, 1, 3, 2 >>), Some(VertsB)),
      MeshObj("two", Some(<< 3, 0, 1, 2, 4, 0, 1, 3, 2 >>), Some(VertsB)) }

WallObj(items) ==
    Obj("Base", "wall", "Objects.BuiltElements.Wall", None, None, TRUE, "list", items, 0, 0)

NonEmptySeqs(S, n) == SeqsUpTo(S, n) \ { << >> }

GeomInputs ==
    { GisFeatureObj(g) : g \in SeqsUpTo(GisPolylinePool, MaxParts) }
    \cup { GisFeatureObj(g) : g \in NonEmptySeqs(GisPolygonPool, MaxParts) }
    \cup { GisFeatureObj(g) : g \in NonEmptySeqs(GisPointPool, MaxParts) }
    \cup { WallObj(items) : items \in NonEmptySeqs(DisplayMeshPool, MaxParts) }
    \cup DisplayMeshPool \cup GisPointPool \cup GisPolylinePool
    \cup { LineObj(<< 0, 0 >>, << 2, 2 >>) }

GeomIdle == g_obj = NoneObj /\ g_out = << >> /\ g_pc = "idle"

GeomInit == g_obj \in GeomInputs /\ g_out = << >> /\ g_pc = "start"

\* coords, coord_counts = assign_geometry(feature, f_base)
GeomConvert ==
    /\ g_pc = "start"
    /\ g_out' = assign_geometry(g_obj)
    /\ g_pc' = "done"
    /\ UNCHANGED g_obj

\* obj_display, obj_get_color = find_display_obj(f_base), then
\* assign_geometry(feature, obj_display) (feature_utils.py:59-63)
GeomDisplayConvert ==
    /\ g_pc = "start"
    /\ g_obj.hasDV
    /\ LET d == find_display_obj(g_obj) IN
       g_out' = IF d.exc # "" THEN AGResult(d.exc, FALSE, "", << >>, << >>)
                ELSE assign_geometry(d.displayVal)
    /\ g_pc' = "merged"
    /\ UNCHANGED g_obj

-----------------------------------------------------------------------------
(* SpeckleProvider._load and SpeckleProvider.query *)

\* self.data, "<url>&lat=..&lon=..&northDegrees=..": the url of a Speckle
\* model (it holds "projects" and "models"), the text before a "?" if there
\* is one, and the parameters it carries (None if absent)
Data(head, url, lat, lon, north) ==
    [ head |-> head, url |-> url, lat |-> lat, lon |-> lon, north |-> north ]

DataPool ==
    { Data("", "A", Some(1000), Some(2000), Some(0)),
      Data("", "B", Some(1000), Some(2000), Some(0)),
      Data("", "A", Some(3000), Some(2000), Some(0)),
      Data("", "A", Some(1000), Some(2000), Some(90)),
      Data("", "A", None, None, None),
      Data("host/?", "B", Some(1000), Some(2000), Some(0)) }

\* what load_speckle_data returns for the model at self.url converted with
\* self.lat, self.lon and self.north_degrees: a new dict each time
Feature(url, k, kind) ==
    [ id |-> None, geometry |-> "Point",
      properties |-> [ id |-> << url, k >>, kind |-> kind ] ]
load_speckle_data(self) ==
    [ url |-> self.url[2], lat |-> self.lat, lon |-> self.lon, north |-> self.north_degrees,
      features |-> << Feature(self.url[2], 1, "a"), Feature(self.url[2], 2, "b"),
                      Feature(self.url[2], 3, "a") >>,
      numberMatched |-> None, numberReturned |-> None ]

\* the arguments of a query
Query(offset, lim, resulttype, properties, select_properties, skip_geometry) ==
    [ offset |-> offset, limit |-> lim, resulttype |-> resulttype,
      properties |-> properties, select_properties |-> select_properties,
      skip_geometry |-> skip_geometry ]
DefaultQuery == Query(0, 10, "results", << >>, {}, FALSE)
QueryPool ==
    { DefaultQuery,
      Query(1, 1, "results", << >>, {}, FALSE),
      Query(0, 10, "hits", << >>, {}, FALSE),
      Query(0, 10, "results", << << "kind", "b" >> >>, {}, FALSE),
      Query(0, 10, "results", << >>, { "id" }, FALSE),
      Query(0, 10, "results", << >>, {}, TRUE) }

\* the first block of _load (speckle.py:141-155): the items after the "?"
\* are written to self
ReadRequest(self, d) ==
    [ self EXCEPT !.url = << "", d.url >>,
                  !.lat = IF IsNone(d.lat) THEN @ ELSE d.lat[1],
                  !.lon = IF IsNone(d.lon) THEN @ ELSE d.lon[1],
                  !.north_degrees = IF IsNone(d.north) THEN @ ELSE d.north[1] ]

\* new_request (speckle.py:158-177): self.data is split at "&" only, an
\* absent parameter counts as 0, and the values are compared with self
OptOr0(o) == IF IsNone(o) THEN 0 ELSE o[1]
NewRequest(self, d) ==
    ~ ( /\ << d.head, d.url >> = self.url
        /\ OptOr0(d.lat) = self.lat
        /\ OptOr0(d.lon) = self.lon
        /\ OptOr0(d.north) = self.north_degrees )

\* all([str(f["properties"][p[0]]) == str(p[1]) for p in properties])
FilterRaises(features, properties) ==
    \E k \in 1..Len(features), j \in 1..Len(properties) :
        properties[j][1] \notin DOMAIN features[k].properties
Matches(f, properties) ==
    \A j \in 1..Len(properties) : f.properties[properties[j][1]] = properties[j][2]

\* the loop over data["features"] (speckle.py:206-223); self.properties is
\* empty and id_field is "id"
Prepare(f, select_properties, skip_geometry) ==
    [ id |-> IF IsNone(f.id) /\ "id" \in DOMAIN f.properties
             THEN Some(f.properties["id"]) ELSE f.id,
      geometry |-> IF skip_geometry THEN "None" ELSE f.geometry,
      properties |-> IF select_properties # {}
                     THEN [ n \in DOMAIN f.properties \cap select_properties |->
                              f.properties[n] ]
                     ELSE f.properties ]

\* _load: self afterwards, whose speckle_data is the dict that is returned
\* (data = self.speckle_data), and the exception raised, if any
_load(self, d, skip_geometry, properties, select_properties) ==
    LET s1 == ReadRequest(self, d)
        s2 == IF NewRequest(s1, d) \/ IsNone(s1.speckle_data)
              THEN [ s1 EXCEPT !.speckle_data = Some(load_speckle_data(s1)) ]
              ELSE s1
        cached == s2.speckle_data[1]
    IN  IF FilterRaises(cached.features, properties)
        THEN [ exc |-> "KeyError", self |-> s2 ]
        ELSE LET kept == SelectSeq(cached.features, LAMBDA f : Matches(f, properties))
                 prepared == [ k \in 1..Len(kept) |->
                                 Prepare(kept[k], select_properties, skip_geometry) ]
             IN [ exc |-> "",
                  self |-> [ s2 EXCEPT !.speckle_data =
                                Some([ cached EXCEPT !.features = prepared ]) ] ]

\* query (speckle.py:257-271): numberMatched, then the slice or the hits
query(self, d, q) ==
    LET l == _load(self, d, q.skip_geometry, q.properties, q.select_properties) IN
    IF l.exc # "" THEN l
    ELSE LET loaded == l.self.speckle_data[1]
             counted == [ loaded EXCEPT !.numberMatched = Some(Len(loaded.features)) ]
             out == IF q.resulttype = "hits"
                    THEN [ counted EXCEPT !.features = << >> ]
                    ELSE [ counted EXCEPT
                             !.features = PySlice(loaded.features, q.offset,
                                                  q.offset + q.limit),
                             !.numberReturned =
                                 Some(Len(PySlice(loaded.features, q.offset,
                                                  q.offset + q.limit))) ]
         IN [ exc |-> "", self |-> [ l.self EXCEPT !.speckle_data = Some(out) ] ]

NoResult == [ kind |-> "none" ]

QueryIdle ==
    /\ q_data = << >> /\ q_self = << >> /\ q_result = NoResult
    /\ q_calls = 0 /\ q_sets = 0

\* __init__ (speckle.py:107-111)
QueryInit ==
    /\ q_data \in DataPool
    /\ q_self = [ url |-> << q_data.head, q_data.url >>, lat |-> DefaultLat,
                  lon |-> DefaultLon, north_degrees |-> 0, speckle_data |-> None ]
    /\ q_result = NoResult
    /\ q_calls = 0
    /\ q_sets = 0

\* the host gives the provider the data string of the next request
SetData ==
    /\ q_calls < MaxCalls
    /\ q_sets < MaxCalls
    /\ \E d \in DataPool \ { q_data } : q_data' = d
    /\ q_sets' = q_sets + 1
    /\ UNCHANGED << q_self, q_result, q_calls >>

\* all_data = self._load(), as get does (speckle.py:281)
CallLoad ==
    /\ q_calls < MaxCalls
    /\ LET r == _load(q_self, q_data, FALSE, << >>, {}) IN
       /\ q_self' = r.self
       /\ q_result' = [ kind |-> "load", exc |-> r.exc, args |-> DefaultQuery,
                        request |-> q_data,
                        data |-> IF r.exc = "" THEN r.self.speckle_data ELSE None ]
    /\ q_calls' = q_calls + 1
    /\ UNCHANGED << q_data, q_sets >>

CallQuery ==
    /\ q_calls < MaxCalls
    /\ \E q \in QueryPool :
         LET r == query(q_self, q_data, q) IN
         /\ q_self' = r.self
         /\ q_result' = [ kind |-> "query", exc |-> r.exc, args |-> q,
                          request |-> q_data,
                          data |-> IF r.exc = "" THEN r.self.speckle_data ELSE None ]
    /\ q_calls' = q_calls + 1
    /\ UNCHANGED << q_data, q_sets >>

-----------------------------------------------------------------------------
(* Specifications *)

FeatIdle ==
    /\ preserve_attributes = "true" /\ requested_data_type = "" /\ limit = 0
    /\ limit_message = EmptyMessage /\ context_list = << >> /\ comments = << >>
    /\ data = [ features |-> << >>, comments |-> << >> ]
    /\ all_coords = << >> /\ all_coord_counts = << >> /\ all_props = { }
    /\ feature_count = 0 /\ idx = 1 /\ pc = "idle" /\ exc = ""

\* a run is either a geometry run over a context list or a comment run over
\* the comment threads
FeatInit ==
    /\ preserve_attributes \in { "true", "false" }
    /\ requested_data_type \in { "polygons", "projectcomments" }
    /\ limit \in 0..MaxLimit
    /\ limit_message = EmptyMessage
    /\ IF requested_data_type = "projectcomments"
       THEN /\ context_list = << >>
            /\ comments \in SeqsUpTo(CommentPool, MaxComments)
            /\ preserve_attributes = "true"
       ELSE /\ context_list \in SeqsUpTo(NodePool, MaxNodes)
            /\ comments = << >>
    /\ data = [ features |-> << >>, comments |-> << >> ]
    /\ all_coords = << >>
    /\ all_coord_counts = << >>
    /\ all_props = { }
    /\ feature_count = 0
    /\ idx = 1
    /\ pc = "loop"
    /\ exc = ""

Init == FeatInit /\ MeshIdle /\ OffIdle /\ LineIdle /\ CrsIdle /\ UrlIdle /\ ColorIdle /\ TravIdle /\ PropIdle /\ GeomIdle /\ QueryIdle

Next ==
    \/ SkipContainer /\ UNCHANGED << meshVars, offVars, lineVars, crsVars, urlVars, colorVars, travVars, propVars, geomVars, queryVars >>
    \/ LimitReached /\ UNCHANGED << meshVars, offVars, lineVars, crsVars, urlVars, colorVars, travVars, propVars, geomVars, queryVars >>
    \/ ProcessNodePreserve /\ UNCHANGED << meshVars, offVars, lineVars, crsVars, urlVars, colorVars, travVars, propVars, geomVars, queryVars >>
    \/ ProcessNodeDecompose /\ UNCHANGED << meshVars, offVars, lineVars, crsVars, urlVars, colorVars, travVars, propVars, geomVars, queryVars >>
    \/ NodesDone /\ UNCHANGED << meshVars, offVars, lineVars, crsVars, urlVars, colorVars, travVars, propVars, geomVars, queryVars >>
    \/ CommentLimitReached /\ UNCHANGED << meshVars, offVars, lineVars, crsVars, urlVars, colorVars, travVars, propVars, geomVars, queryVars >>
    \/ ProcessComment /\ UNCHANGED << meshVars, offVars, lineVars, crsVars, urlVars, colorVars, travVars, propVars, geomVars, queryVars >>
    \/ CommentsDone /\ UNCHANGED << meshVars, offVars, lineVars, crsVars, urlVars, colorVars, travVars, propVars, geomVars, queryVars >>
    \/ FinalCheck /\ UNCHANGED << meshVars, offVars, lineVars, crsVars, urlVars, colorVars, travVars, propVars, geomVars, queryVars >>
    \/ CreateFeaturesReproject /\ UNCHANGED << meshVars, offVars, lineVars, crsVars, urlVars, colorVars, travVars, propVars, geomVars, queryVars >>

Spec == Init /\ [][Next]_vars

InitMesh == FeatIdle /\ MeshInit /\ OffIdle /\ LineIdle /\ CrsIdle /\ UrlIdle /\ ColorIdle /\ TravIdle /\ PropIdle /\ GeomIdle /\ QueryIdle

NextMesh ==
    \/ MeshConverter /\ UNCHANGED << featVars, offVars, lineVars, crsVars, urlVars, colorVars, travVars, propVars, geomVars, queryVars >>
    \/ MeshProvider /\ UNCHANGED << featVars, offVars, lineVars, crsVars, urlVars, colorVars, travVars, propVars, geomVars, queryVars >>

SpecMesh == InitMesh /\ [][NextMesh]_vars

InitOffset == FeatIdle /\ MeshIdle /\ OffInit /\ LineIdle /\ CrsIdle /\ UrlIdle /\ ColorIdle /\ TravIdle /\ PropIdle /\ GeomIdle /\ QueryIdle

NextOffset == OffsetRotate /\ UNCHANGED << featVars, meshVars, lineVars, crsVars, urlVars, colorVars, travVars, propVars, geomVars, queryVars >>

SpecOffset == InitOffset /\ [][NextOffset]_vars

InitLine == FeatIdle /\ MeshIdle /\ OffIdle /\ LineInit /\ CrsIdle /\ UrlIdle /\ ColorIdle /\ TravIdle /\ PropIdle /\ GeomIdle /\ QueryIdle

NextLine == LineConverter /\ UNCHANGED << featVars, meshVars, offVars, crsVars, urlVars, colorVars, travVars, propVars, geomVars, queryVars >>

SpecLine == InitLine /\ [][NextLine]_vars

InitCrs == FeatIdle /\ MeshIdle /\ OffIdle /\ LineIdle /\ CrsInit /\ UrlIdle /\ ColorIdle /\ TravIdle /\ PropIdle /\ GeomIdle /\ QueryIdle

NextCrs ==
    \/ ResolveCrs /\ UNCHANGED << featVars, meshVars, offVars, lineVars, urlVars, colorVars, travVars, propVars, geomVars, queryVars >>
    \/ ConvertItem /\ UNCHANGED << featVars, meshVars, offVars, lineVars, urlVars, colorVars, travVars, propVars, geomVars, queryVars >>
    \/ TraverseReturn /\ UNCHANGED << featVars, meshVars, offVars, lineVars, urlVars, colorVars, travVars, propVars, geomVars, queryVars >>

SpecCrs == InitCrs /\ [][NextCrs]_vars

InitUrl == FeatIdle /\ MeshIdle /\ OffIdle /\ LineIdle /\ CrsIdle /\ UrlInit /\ ColorIdle /\ TravIdle /\ PropIdle /\ GeomIdle /\ QueryIdle

NextUrl ==
    \/ get_set_url_parameters /\ UNCHANGED << featVars, meshVars, offVars, lineVars, crsVars, colorVars, travVars, propVars, geomVars, queryVars >>
    \/ create_crs_dict /\ UNCHANGED << featVars, meshVars, offVars, lineVars, crsVars, colorVars, travVars, propVars, geomVars, queryVars >>

SpecUrl == InitUrl /\ [][NextUrl]_vars

InitColor == FeatIdle /\ MeshIdle /\ OffIdle /\ LineIdle /\ CrsIdle /\ UrlIdle /\ ColorInit /\ TravIdle /\ PropIdle /\ GeomIdle /\ QueryIdle

NextColor ==
    \/ \E r \in Runs : set_default_color(r)
                       /\ UNCHANGED << featVars, meshVars, offVars, lineVars, crsVars, urlVars, travVars, propVars, geomVars, queryVars >>
    \/ \E r \in Runs : assign_color(r)
                       /\ UNCHANGED << featVars, meshVars, offVars, lineVars, crsVars, urlVars, travVars, propVars, geomVars, queryVars >>
    \/ \E r \in Runs : RunDone(r)
                       /\ UNCHANGED << featVars, meshVars, offVars, lineVars, crsVars, urlVars, travVars, propVars, geomVars, queryVars >>

SpecColor == InitColor /\ [][NextColor]_vars

InitTraverse == FeatIdle /\ MeshIdle /\ OffIdle /\ LineIdle /\ CrsIdle /\ UrlIdle /\ ColorIdle /\ TravInit /\ PropIdle /\ GeomIdle /\ QueryIdle

NextTraverse ==
    \/ TraverseStep /\ UNCHANGED << featVars, meshVars, offVars, lineVars, crsVars, urlVars, colorVars, propVars, geomVars, queryVars >>

SpecTraverse == InitTraverse /\ [][NextTraverse]_vars

InitProps == FeatIdle /\ MeshIdle /\ OffIdle /\ LineIdle /\ CrsIdle /\ UrlIdle /\ ColorIdle /\ TravIdle /\ PropInit /\ GeomIdle /\ QueryIdle

NextProps ==
    \/ AssignProps /\ UNCHANGED << featVars, meshVars, offVars, lineVars, crsVars, urlVars, colorVars, travVars, geomVars, queryVars >>

SpecProps == InitProps /\ [][NextProps]_vars

InitGeom == FeatIdle /\ MeshIdle /\ OffIdle /\ LineIdle /\ CrsIdle /\ UrlIdle /\ ColorIdle /\ TravIdle /\ PropIdle /\ GeomInit /\ QueryIdle

NextGeom ==
    \/ GeomConvert /\ UNCHANGED << featVars, meshVars, offVars, lineVars, crsVars, urlVars, colorVars, travVars, propVars, queryVars >>
    \/ GeomDisplayConvert /\ UNCHANGED << featVars, meshVars, offVars, lineVars, crsVars, urlVars, colorVars, travVars, propVars, queryVars >>

SpecGeom == InitGeom /\ [][NextGeom]_vars

InitQuery == FeatIdle /\ MeshIdle /\ OffIdle /\ LineIdle /\ CrsIdle /\ UrlIdle /\ ColorIdle /\ TravIdle /\ PropIdle /\ GeomIdle /\ QueryInit

NextQuery ==
    \/ SetData /\ UNCHANGED << featVars, meshVars, offVars, lineVars, crsVars, urlVars, colorVars, travVars, propVars, geomVars >>
    \/ CallLoad /\ UNCHANGED << featVars, meshVars, offVars, lineVars, crsVars, urlVars, colorVars, travVars, propVars, geomVars >>
    \/ CallQuery /\ UNCHANGED << featVars, meshVars, offVars, lineVars, crsVars, urlVars, colorVars, travVars, propVars, geomVars >>

SpecQuery == InitQuery /\ [][NextQuery]_vars


-----------------------------------------------------------------------------
(* Claims *)

Finished == pc \in { "returned", "raised" }
GeometryRun == requested_data_type # "projectcomments"
PreserveRun == GeometryRun /\ preserve_attributes = "true"

\* a node that yields a feature in preserve-attributes mode
Convertible(n) ==
    /\ ~IsContainer(n)
    /\ LET d == find_display_obj(n) IN
       /\ d.exc = ""
       /\ LET g == assign_geometry(d.displayVal) IN
          ~g.none /\ g.exc = "" /\ g.coords # << >>

IdsOf(objs) == [ k \in 1..Len(objs) |-> objs[k].id ]
FeatureIds(features) == [ k \in 1..Len(features) |-> features[k].properties.id ]

C2_LimitExact ==
    (Finished /\ PreserveRun /\ limit >= 1
        /\ Len(SelectSeq(context_list, Convertible)) > limit)
    => /\ pc = "returned"
       /\ Len(data.features) = limit
       /\ FeatureIds(data.features)
            = SubSeq(IdsOf(SelectSeq(context_list, Convertible)), 1, limit)
       /\ limit_message # EmptyMessage

C5_NodeFailureNeverAborts ==
    pc = "raised" => exc = "ValueError"

\* a Brep whose displayValue is None or an empty list
IsEmptyBrep(n) ==
    n.cls = "Brep" /\ (n.dvKind = "None" \/ (n.dvKind = "list" /\ n.dvItems = << >>))

\* C6: a Brep whose displayValue is None or empty is skipped: the run never
\* ends with an exception raised at such a node.
C6_EmptyBrepSkipped ==
    (pc = "raised" /\ exc # "ValueError" /\ idx <= Len(context_list))
    => ~IsEmptyBrep(context_list[idx])

\* C7: offset_rotate returns, for each point, the rotated point scaled by the
\* unit factor with the unscaled offset added afterwards.
C7_OffsetAfterScale ==
    o_pc = "done" =>
      o_out = [ k \in 1..Len(o_in) |->
                 LET c == o_in[k]
                     s == ScaleFactor(o_crs)
                     x2 == c[1] * Cos(o_crs.rotation) - c[2] * Sin(o_crs.rotation)
                     y2 == c[1] * Sin(o_crs.rotation) + c[2] * Cos(o_crs.rotation)
                 IN << s * x2 + o_crs.offset_x, s * y2 + o_crs.offset_y >> ]

\* the points of the faces of a shape, face by face, read from the vertex
\* buffer at 3 * index
FacePoints(shape, vs) ==
    [ i \in 1..Len(shape) |->
        [ j \in 1..Len(shape[i].idx) |->
            << vs[3 * shape[i].idx[j] + 1], vs[3 * shape[i].idx[j] + 2] >> ] ]

\* C8: for a well-formed mesh the provider's re-slicing of the transformed
\* buffer yields one single-ring polygon per face, ring i holding as many
\* points as face i has vertices, and the rings in order are the transformed
\* points of the faces in order.
C8_ResliceRings ==
    m_pc = "provider" =>
      /\ Len(m_prov) = Len(m_shape)
      /\ \A i \in 1..Len(m_prov) :
            Len(m_prov[i]) = 1 /\ Len(m_prov[i][1]) = Len(m_shape[i].idx)
      /\ FlattenSeq([ i \in 1..Len(m_prov) |-> m_prov[i][1] ])
           = reproject_2d_coords_list(m_tr, FlattenSeq(FacePoints(m_shape, m_vertices)))

\* two faces, the first with the historic count 0, under the collapsing transform
C8_Witness ==
    /\ m_pc = "provider" /\ Len(m_shape) = 2 /\ m_shape[1].stored = 0
    /\ m_tr = "collapse" /\ Len(m_prov) = 2 /\ Len(m_prov[2][1]) = 4

C10_MeshDecoding ==
    m_pc \in { "converter", "provider" } =>
      /\ m_conv.exc = "" /\ ~m_conv.none
      /\ m_conv.type = "MultiPolygon"
      /\ m_conv.coord_counts
           = << NoneEntry >> \o [ i \in 1..Len(m_shape) |-> Lens(<< Len(m_shape[i].idx) >>) ]
      /\ m_conv.coords = FlattenSeq(FacePoints(m_shape, m_vertices))

\* a decoded mesh of two faces stored with the historic counts 1 and 0
C10_Witness ==
    /\ m_pc = "converter" /\ Len(m_shape) = 2
    /\ m_shape[1].stored = 1 /\ m_shape[2].stored = 0
    /\ Len(m_conv.coords) = 7

\* The sampled points and the closed flag assign_geometry read
LinePts == IF l_obj.cls = "Curve" THEN l_obj.dvItems[1].points ELSE l_obj.points
LineClosed == IF l_obj.cls = "Curve" THEN l_obj.dvItems[1].closed ELSE l_obj.closed
LineEndsDiffer == LinePts # << >> /\ LinePts[1] # LinePts[Len(LinePts)]
LineDone == l_pc = "done" /\ l_obj.cls \in { "Polyline", "Curve" }

\* C11 (as stated): every closed Polyline or Curve whose first and last
\* points differ gets a copy of its first point appended, whatever its
\* number of vertices, and the part length counts it; every other polyline
\* is emitted unchanged.
C11_ClosedAnyLength ==
    LineDone =>
        /\ l_out.exc = "" /\ l_out.type = "LineString"
        /\ IF LineClosed /\ LineEndsDiffer
           THEN /\ l_out.coords = Append(LinePts, LinePts[1])
                /\ l_out.coords[1] = l_out.coords[Len(l_out.coords)]
                /\ l_out.coord_counts = << Lens(<< Len(LinePts) + 1 >>) >>
           ELSE /\ l_out.coords = LinePts
                /\ l_out.coord_counts = << Lens(<< Len(LinePts) >>) >>

\* C11 (amended): a closed Polyline or Curve with more than two sampled
\* points whose first and last points differ gets a copy of its first point
\* appended, so that the LineString starts and ends on the same point and
\* the part length counts the appended point; a polyline that is not closed,
\* has at most two points, or already ends where it starts is emitted
\* unchanged, and closing the closed output again changes nothing.
C11_ClosedMoreThanTwo ==
    LineDone =>
        /\ l_out.exc = "" /\ l_out.type = "LineString"
        /\ IF LineClosed /\ LineEndsDiffer /\ Len(LinePts) > 2
           THEN /\ l_out.coords = Append(LinePts, LinePts[1])
                /\ l_out.coords[1] = l_out.coords[Len(l_out.coords)]
                /\ l_out.coord_counts = << Lens(<< Len(LinePts) + 1 >>) >>
                /\ assign_geometry(PolylineObj(l_out.coords, TRUE)).coords = l_out.coords
           ELSE /\ l_out.coords = LinePts
                /\ l_out.coord_counts = << Lens(<< Len(LinePts) >>) >>

C11_Witness ==
    /\ LineDone /\ LineClosed /\ LineEndsDiffer /\ Len(LinePts) = 3
    /\ Len(l_out.coords) = 4

\* the properties a feature had when it was appended, recomputed from its
\* source node (preserve-attributes mode) or from the fixed three keys
OriginalProps(f, k) ==
    IF preserve_attributes = "true"
    THEN LET n == CHOOSE n \in NodePool : n.id = f.properties.id IN
         assign_props(n.members, [ id |-> n.id, FID |-> k, speckle_type |-> n.speckle_type ])
    ELSE [ id |-> f.properties.id, FID |-> k, speckle_type |-> f.properties.speckle_type ]

CrsLayers == { k \in 1..Len(t_ctx) : t_ctx[k].layer /\ t_ctx[k].hasCrs }

\* C14: if some traversal context is a layer carrying a crs, the crs of the
\* first such context is used unchanged for every item of the run; only when
\* no context carries one is a crs synthesized, with central meridian
\* self.lon, latitude of origin self.lat, false easting and northing 0,
\* offsets 0, scale factor 1 and rotation north_degrees.
C14_CrsResolution ==
    t_pc \in { "features", "done" } =>
        /\ ~IsNone(t_crs)
        /\ \A k \in 1..Len(t_used) : t_used[k].crs = t_crs[1]
        /\ IF CrsLayers # { }
           THEN t_crs[1] = t_ctx[SetMin(CrsLayers)].crs
           ELSE /\ t_crs[1].wkt.central_meridian = t_self.lon
                /\ t_crs[1].wkt.latitude_of_origin = t_self.lat
                /\ t_crs[1].wkt.false_easting = 0
                /\ t_crs[1].wkt.false_northing = 0
                /\ t_crs[1].wkt.scale_factor = 1
                /\ t_crs[1].offset_x = 0 /\ t_crs[1].offset_y = 0
                /\ t_crs[1].rotation = t_self.north_degrees

C14_Witness ==
    /\ t_pc = "done"
    /\ Cardinality(CrsLayers) = 2
    /\ t_ctx[1].supported
    /\ t_ctx[2].crs # t_ctx[3].crs
    /\ Len(t_used) = 3

\* the request carries a crsAuthId parameter
HasAuthId == u_data.valid /\ \E k \in 1..Len(u_data.items) : u_data.items[k].key = "crsauthid"

\* C15: when the request carries a crsAuthId, its lat, lon and northDegrees
\* parameters are ignored: after get_set_url_parameters self.lat, self.lon
\* and self.north_degrees hold the values they had before the call, wherever
\* the crsAuthId stands in the parameter list.
C15_AuthIdSuppressesLatLon ==
    (u_pc \in { "params", "done" } /\ HasAuthId) =>
        /\ u_self.lat = DefaultLat
        /\ u_self.lon = DefaultLon
        /\ u_self.north_degrees = 0

\* C16: when create_crs_dict has run with no crs resolved (self.crs is None)
\* the request has ended in a CRSNotResolvable error; it never goes on
\* without a CRS definition.
C16_NoCrsIsError ==
    u_pc = "done" => (~IsNone(u_self.crs) /\ ~IsNone(u_self.crs_dict))

Yield(n) ==
    IF IsContainer(n) THEN 0
    ELSE IF preserve_attributes = "true" THEN (IF Convertible(n) THEN 1 ELSE 0)
    ELSE LET r == DecomposeLoop(n, find_list_of_display_obj(n), 1,
                      [ features |-> << >>, coords |-> << >>, counts |-> << >>,
                        count |-> 0, raise |-> "" ])
         IN IF r.raise = "" THEN r.count ELSE 0

\* the features (or comments) the whole input would yield without a limit
Producible ==
    IF GeometryRun
    THEN SumSeq([ k \in 1..Len(context_list) |-> Yield(context_list[k]) ])
    ELSE Len(SelectSeq(comments, LAMBDA c : TryGeometryCatchAll(c.position).coords # << >>))

\* C18: at the end of initialize_features limit_message is non-empty only if
\* a node (or comment) that would have produced a feature was left out
\* because the limit was reached; a run whose convertible nodes all appear in
\* the output has an empty limit_message.
C18_MessageOnlyIfTruncated ==
    (Finished /\ limit_message # EmptyMessage) =>
        Producible > Len(data.features) + Len(data.comments)

\* C19: whatever the interleaving of two conversion runs, the fallback colour
\* assign_color gives to a run's features depends only on that run's own
\* context list: blue iff it contains a VectorLayer, grey otherwise.
C19_ColorOfOwnRun ==
    \A r \in DOMAIN runs : \A k \in 1..Len(runs[r].out) :
        ~runs[r].out[k].own =>
            runs[r].out[k].color
                = get_r_g_b(IF HasVectorLayer(runs[r].ctx) THEN Blue ELSE Grey)

\* the terminal geometry nodes of the traversal that carry a units string
UnitNodes == { k \in 1..Len(t_ctx) : t_ctx[k].supported /\ ~IsNone(t_ctx[k].units) }

\* C20: when a crs declaration is found but its units_native is not a
\* string, the unit scale factor applied to the coordinates is the one of the
\* units field of the terminal geometry nodes, not 1.
C20_UnitsFallback ==
    (t_pc = "done" /\ CrsLayers # { } /\ UnitNodes # { }
        /\ IsNone(t_ctx[SetMin(CrsLayers)].crs.units_native)) =>
        \A k \in 1..Len(t_used) :
            t_used[k].scale_factor
                = get_scale_factor_from_string(t_ctx[SetMin(UnitNodes)].units[1])

TraversalDone == v_stack = << >> /\ v_ctx # << >>
VisitedIds == { v_ctx[k].id : k \in 1..Len(v_ctx) }

\* C21: the traversal never expands a terminal geometry node: the node is in
\* the context list but no element of its list-valued members is; of every
\* other node the Base elements of each list-valued member are visited.
C21_TerminalNotExpanded ==
    /\ \A k \in 1..Len(v_ctx) :
         v_ctx[k].kind = "terminal" =>
            \A e \in { BaseElements(v_ctx[k].lists)[j] :
                         j \in 1..Len(BaseElements(v_ctx[k].lists)) } :
                e.id \notin VisitedIds
    /\ TraversalDone =>
         /\ v_ctx[1] = v_root
         /\ \A k \in 1..Len(v_ctx) :
              v_ctx[k].kind = "other" =>
                 \A e \in { BaseElements(v_ctx[k].lists)[j] :
                              j \in 1..Len(BaseElements(v_ctx[k].lists)) } :
                     e.id \in VisitedIds

C21_Witness ==
    /\ TraversalDone
    /\ { "brep", "wall", "wall-dv", "pl" } \subseteq VisitedIds
    /\ "brep-dv" \notin VisitedIds

NamesOf(ms) == { ms[k].name : k \in 1..Len(ms) }
AttributesOf(ms) == { ms[k] : k \in { i \in 1..Len(ms) : ms[i].name = "attributes" } }

\* C22: every value of a property map filled by assign_props is a primitive:
\* a member holding a node, a list or a map is stored as its string form, and
\* no denylisted name is a key, be it a member of the node or of its
\* attributes object.
C22_OnlyPrimitives ==
    p_pc = "done" =>
        /\ \A k \in DOMAIN p_props : p_props[k].tag \in PrimTags
        /\ DOMAIN p_props \cap Denylist = {}
        /\ \A i \in 1..Len(p_obj) :
              (p_obj[i].kind # "prim" /\ p_obj[i].name \notin Denylist
                  /\ ~(p_obj[i].kind = "base" /\ p_obj[i].name = "attributes"))
              => p_props[p_obj[i].name] = Value("str", p_obj[i].val.text)

C22_Witness ==
    /\ p_pc = "done"
    /\ { "faces", "tags", "attributes" } \subseteq NamesOf(p_obj)
    /\ AttributesBase \in AttributesOf(p_obj)
    /\ { "tags", "zone", "owner" } \subseteq DOMAIN p_props

\* C23: of a node with a member named attributes, whatever the kind of its
\* value, every member of that value is a key of the property map and no key
\* attributes is added.
C23_AttributesMerged ==
    p_pc = "done" =>
        \A a \in AttributesOf(p_obj) :
            /\ "attributes" \notin DOMAIN p_props
            /\ \A k \in 1..Len(a.sub) :
                  a.sub[k].name \notin Denylist => a.sub[k].name \in DOMAIN p_props

GisRun(cls) ==
    /\ g_pc = "done"
    /\ IsGisFeature(g_obj)
    /\ Len(g_obj.geometry) > 0
    /\ g_obj.geometry[1].cls = cls

\* the counts of the parts before part k, and of the rings before ring r of
\* part k, of a length encoding that starts with the None marker
PartOffset(counts, k) ==
    SumSeq(FlattenSeq([ j \in 1..(k - 1) |-> counts[j + 1].lens ]))
RingOffset(counts, k, r) ==
    PartOffset(counts, k) + SumSeq(SubSeq(counts[k + 1].lens, 1, r - 1))
\* the points the r-th length of part k covers
RingPoints(out, k, r) ==
    PySlice(out.coords, RingOffset(out.coord_counts, k, r),
            RingOffset(out.coord_counts, k, r) + out.coord_counts[k + 1].lens[r])

\* C24: a GIS feature of polygons gives one part per polygon, in order; the
\* lengths of a part are the vertex counts of the boundary and then of the
\* holes in declaration order, and the k-th length covers the points of the
\* k-th ring.
C24_PolygonParts ==
    GisRun("GisPolygonGeometry") =>
        /\ g_out.exc = "" /\ g_out.type = "MultiPolygon"
        /\ Len(g_out.coord_counts) = 1 + Len(g_obj.geometry)
        /\ Len(g_out.coords) = PartOffset(g_out.coord_counts, Len(g_obj.geometry) + 1)
        /\ \A k \in 1..Len(g_obj.geometry) :
              LET polygon == g_obj.geometry[k]
                  lens == g_out.coord_counts[k + 1].lens
              IN /\ Len(lens) = 1 + Len(polygon.voids)
                 /\ lens[1] = Len(polygon.boundary.points)
                 /\ RingPoints(g_out, k, 1) = polygon.boundary.points
                 /\ \A h \in 1..Len(polygon.voids) :
                       /\ lens[h + 1] = Len(polygon.voids[h].points)
                       /\ RingPoints(g_out, k, h + 1) = polygon.voids[h].points

C24_Witness ==
    /\ GisRun("GisPolygonGeometry")
    /\ Len(g_obj.geometry) = 2
    /\ Len(g_obj.geometry[1].voids) = 1
    /\ Len(g_obj.geometry[2].voids) = 2
    /\ g_out.coord_counts[3].lens = << 4, 3, 4 >>

MultiTypes == { "MultiPoint", "MultiLineString", "MultiPolygon" }
Encoded == g_pc \in { "done", "merged" } /\ g_out.exc = "" /\ ~g_out.none
              /\ g_out.coord_counts # << >>
NoneFirstIffMulti ==
    /\ g_out.coord_counts[1].none <=> g_out.type \in MultiTypes
    /\ \A k \in 2..Len(g_out.coord_counts) :
          ~g_out.coord_counts[k].none /\ g_out.coord_counts[k].lens # << >>
CountsAtLeast(n) ==
    \A k \in 2..Len(g_out.coord_counts) :
        \A j \in 1..Len(g_out.coord_counts[k].lens) : g_out.coord_counts[k].lens[j] >= n

\* C25 as stated: of a non-empty length encoding the first entry is None if
\* and only if the geometry type is a multi-part type, None is nowhere else,
\* and every other entry is a non-empty list of positive counts.
C25_PositiveCounts == Encoded => (NoneFirstIffMulti /\ CountsAtLeast(1))

\* C25 amended: the same with counts that are not negative; a polyline
\* without points gives the count 0.
C25_NoneFirstIffMulti == Encoded => (NoneFirstIffMulti /\ CountsAtLeast(0))

C25_Witness ==
    /\ Encoded
    /\ g_out.type = "MultiLineString"
    /\ Len(g_out.coord_counts) = 3
    /\ g_out.coord_counts[2].lens = << 0 >>
    /\ g_out.coord_counts[3].lens = << 4 >>

\* C29: every polyline of a GIS feature is closed on its own first point: a
\* polyline of more than two points that is marked closed and whose own ends
\* differ ends with a copy of its own first point, any other is emitted as
\* it is.
C29_ClosedOnOwnFirstPoint ==
    GisRun("Polyline") =>
        \A k \in 1..Len(g_obj.geometry) :
            Len(g_obj.geometry[k].points) > 2 =>
                RingPoints(g_out, k, 1)
                    = CloseIfOpen(g_obj.geometry[k].points, g_obj.geometry[k].closed)

\* the rings of each display mesh decoded on its own, one after the other
RECURSIVE DecodedOneByOne(_)
DecodedOneByOne(items) ==
    IF items = << >> THEN [ coords |-> << >>, counts |-> << >> ]
    ELSE LET one == assign_geometry(Head(items))
             rest == DecodedOneByOne(Tail(items))
         IN [ coords |-> one.coords \o rest.coords,
              counts |-> Tail(one.coord_counts) \o rest.counts ]

\* C30: decoding the mesh merged from a list of display meshes gives the
\* rings of the meshes decoded one by one, in list order, the historic face
\* counts 0 and 1 included.
C30_MergePreservesGeometry ==
    (g_pc = "merged" /\ g_obj.dvKind = "list") =>
        /\ g_out.exc = ""
        /\ g_out.coords = DecodedOneByOne(g_obj.dvItems).coords
        /\ g_out.coord_counts = << NoneEntry >> \o DecodedOneByOne(g_obj.dvItems).counts

Returned == q_result.kind # "none" /\ q_result.exc = ""

\* C27: the collection _load returns belongs to the self.data of the call:
\* it was loaded for the url of that self.data and for each of lat, lon and
\* northDegrees that it carries.
C27_LoadedForCurrentData ==
    Returned =>
        LET got == q_result.data[1]
            d == q_result.request
        IN /\ got.url = d.url
           /\ ~IsNone(d.lat) => got.lat = d.lat[1]
           /\ ~IsNone(d.lon) => got.lon = d.lon[1]
           /\ ~IsNone(d.north) => got.north = d.north[1]

\* the features of the dataset of self.data that satisfy the filter of the
\* call, as this call alone would return them
Dataset == load_speckle_data([ url |-> << "", q_data.url >>, lat |-> 0, lon |-> 0,
                               north_degrees |-> 0 ]).features
Matching(q) ==
    LET kept == SelectSeq(Dataset, LAMBDA f : Matches(f, q.properties)) IN
    [ k \in 1..Len(kept) |-> Prepare(kept[k], q.select_properties, q.skip_geometry) ]

\* C28: with self.data unchanged, every query returns numberMatched equal to
\* the number of features of the dataset that satisfy its own filter and,
\* unless it asks for hits, the slice [offset, offset+limit) of them,
\* whatever the earlier calls asked for.
C28_QueryLeavesDatasetAlone ==
    (q_sets = 0 /\ q_result.kind = "query") =>
        /\ q_result.exc = ""
        /\ q_result.data[1].numberMatched = Some(Len(Matching(q_result.args)))
        /\ q_result.args.resulttype # "hits" =>
              q_result.data[1].features
                  = PySlice(Matching(q_result.args), q_result.args.offset,
                            q_result.args.offset + q_result.args.limit)

====
